---------------------------- MODULE Spec2Model ----------------------------
(***************************************************************************)
(* Model of the calendar_manager scheduling engine: the availability       *)
(* checker (OneOnOneManager.is_person_free), the free-slot finder          *)
(* (OneOnOneManager.get_free_slots) and the interactive recommend loop     *)
(* (cli.recommend), with the directory, timezone and calendar-query        *)
(* helpers they call.                                                      *)
(*                                                                         *)
(* Instants are minutes since 00:00 UTC of day 0.  Text that the code      *)
(* searches by substring (names, titles) is a sequence of one-character    *)
(* strings; an email is the pair <<user, domain>>; a location is the list  *)
(* of its comma-separated parts.  A timezone is its IANA name, and         *)
(* astimezone uses the zone's standard-time offset.                        *)
(***************************************************************************)
EXTENDS Integers, Sequences, FiniteSets, TLC

VARIABLES
    \* the backend's calendars: the events each query can return, in the
    \* order the backend lists them
    slot_calendar, primary_calendar, person_calendars,
    \* is_person_free called on its own: arguments and exit taken
    meeting_time, person_email, free_exit,
    \* get_free_slots called on its own: whether it returned, and the list
    slots_returned, free_slots,
    \* the persisted snapshot next_meetings.json: <<email, due day>> entries
    \* in the order of the file
    snapshot,
    \* recommend: its --dry-run option, its locals slots and next_meetings,
    \* the position of the two nested loops (slot si, candidate ci), the
    \* point the run is at, and the record of what the run did
    dry_run, slots, next_meetings, si, ci, pc, log,
    \* the calendars whose queries the backend answers with an HttpError
    failing,
    \* the clock: the instant datetime.utcnow() gives
    now,
    \* a directory or classifier helper called on its own: which one, the
    \* person and the config or event it is given, and what it gave back
    unit_op, unit_person, unit_arg, unit_out,
    \* the history lookup and the due-date engine called on their own: the
    \* username, the lookback in days, and what each gave back
    due_user, days_back, last_out, next_out,
    \* schedule called on its own: what it gave back
    booked,
    \* refresh_next_meetings: the point it is at, the map it computed, the
    \* snapshot the file held before, whether the file is a whole JSON
    \* document, and the instant and snapshot of the run before this one
    refresh_pc, computed, prior_snapshot, snapshot_whole, first_run

calendars == <<slot_calendar, primary_calendar, person_calendars>>
clock_vars == <<failing, now>>
unit_vars == <<unit_op, unit_person, unit_arg, unit_out>>
due_vars == <<due_user, days_back, last_out, next_out, booked>>
refresh_vars == <<refresh_pc, computed, prior_snapshot, snapshot_whole, first_run>>
free_vars == <<meeting_time, person_email, free_exit>>
slots_vars == <<slots_returned, free_slots>>
recommend_vars == <<snapshot, dry_run, slots, next_meetings, si, ci, pc, log>>

vars == <<calendars, free_vars, slots_vars, recommend_vars,
          clock_vars, unit_vars, due_vars, refresh_vars>>

-----------------------------------------------------------------------------
(* Bounds of the model *)

\* days of instants the availability checker is tried on
MaxDays == 1

\* slot blocks the slot calendar holds when get_free_slots is tried
MaxBlocks == 2

-----------------------------------------------------------------------------
(* Time *)

MinutesPerDay == 24 * 60

\* timedelta(minutes=30)
SlotMinutes == 30

\* datetime.time(): the minute of the day of a local instant
TimeOfDay(t) == ((t % MinutesPerDay) + MinutesPerDay) % MinutesPerDay

Time(h, m) == h * 60 + m

-----------------------------------------------------------------------------
(* Text *)

\* sub in s, for sequences of characters
Contains(s, sub) ==
    \E i \in 0..(Len(s) - Len(sub)) :
        \A j \in 1..Len(sub) : s[i + j] = sub[j]

\* str.split()[0]: the first whitespace-delimited token
RECURSIVE SkipSpaces(_)
SkipSpaces(s) ==
    IF s # <<>> /\ Head(s) = " " THEN SkipSpaces(Tail(s)) ELSE s

RECURSIVE TakeToken(_)
TakeToken(s) ==
    IF s = <<>> \/ Head(s) = " " THEN <<>> ELSE <<Head(s)>> \o TakeToken(Tail(s))

FirstToken(s) == TakeToken(SkipSpaces(s))

\* Attendee.first_name, Person.first_name
first_name(p) == FirstToken(p.name)

\* Attendee.has_declined
has_declined(a) == a.response_status = "declined"

-----------------------------------------------------------------------------
(* Person.get_timezone and its tables *)

METRO_TIMEZONES ==
    ("USD - SF/NY" :> "America/New_York") @@ ("USD - USA" :> "America/Chicago") @@
    ("CAD - Canada" :> "America/Toronto") @@ ("GBP - UK" :> "Europe/London") @@
    ("SGD - Singapore" :> "Asia/Singapore") @@ ("INR - India" :> "Asia/Kolkata")

US_STATE_TIMEZONES ==
    ("AK" :> "America/Anchorage") @@ ("AL" :> "America/Chicago") @@
    ("AR" :> "America/Chicago") @@ ("AZ" :> "America/Phoenix") @@
    ("CA" :> "America/Los_Angeles") @@ ("CO" :> "America/Denver") @@
    ("CT" :> "America/New_York") @@ ("DC" :> "America/New_York") @@
    ("DE" :> "America/New_York") @@ ("FL" :> "America/New_York") @@
    ("GA" :> "America/New_York") @@ ("HI" :> "Pacific/Honolulu") @@
    ("IA" :> "America/Chicago") @@ ("ID" :> "America/Boise") @@
    ("IL" :> "America/Chicago") @@ ("IN" :> "America/Indiana/Indianapolis") @@
    ("KS" :> "America/Chicago") @@ ("KY" :> "America/New_York") @@
    ("LA" :> "America/Chicago") @@ ("MA" :> "America/New_York") @@
    ("MD" :> "America/New_York") @@ ("ME" :> "America/New_York") @@
    ("MI" :> "America/Detroit") @@ ("MN" :> "America/Chicago") @@
    ("MO" :> "America/Chicago") @@ ("MS" :> "America/Chicago") @@
    ("MT" :> "America/Denver") @@ ("NC" :> "America/New_York") @@
    ("ND" :> "America/Chicago") @@ ("NE" :> "America/Chicago") @@
    ("NH" :> "America/New_York") @@ ("NJ" :> "America/New_York") @@
    ("NM" :> "America/Denver") @@ ("NV" :> "America/Los_Angeles") @@
    ("NY" :> "America/New_York") @@ ("OH" :> "America/New_York") @@
    ("OK" :> "America/Chicago") @@ ("OR" :> "America/Los_Angeles") @@
    ("PA" :> "America/New_York") @@ ("RI" :> "America/New_York") @@
    ("SC" :> "America/New_York") @@ ("SD" :> "America/Chicago") @@
    ("TN" :> "America/Chicago") @@ ("TX" :> "America/Chicago") @@
    ("UT" :> "America/Denver") @@ ("VA" :> "America/New_York") @@
    ("VT" :> "America/New_York") @@ ("WA" :> "America/Los_Angeles") @@
    ("WI" :> "America/Chicago") @@ ("WV" :> "America/New_York") @@
    ("WY" :> "America/Denver")

CANADA_PROVINCE_TIMEZONES ==
    ("AB" :> "America/Edmonton") @@ ("BC" :> "America/Vancouver") @@
    ("MB" :> "America/Winnipeg") @@ ("NB" :> "America/Halifax") @@
    ("NL" :> "America/St_Johns") @@ ("NS" :> "America/Halifax") @@
    ("NT" :> "America/Yellowknife") @@ ("NU" :> "America/Iqaluit") @@
    ("ON" :> "America/Toronto") @@ ("PE" :> "America/Halifax") @@
    ("QC" :> "America/Montreal") @@ ("SK" :> "America/Regina") @@
    ("YT" :> "America/Whitehorse")

\* the ValueError get_timezone raises
NoTimezone == "ValueError"

\* get_timezone where a region code the country's table lacks falls back to
\* the metro table
get_timezone_metro_fallback(person) ==
    LET by_metro == IF person.metro \notin DOMAIN METRO_TIMEZONES
                    THEN NoTimezone
                    ELSE METRO_TIMEZONES[person.metro]
    IN  IF Len(person.location) # 3 THEN by_metro
        ELSE LET state_code == person.location[2]
                 country == person.location[3]
             IN  IF country = "US" /\ state_code \in DOMAIN US_STATE_TIMEZONES
                 THEN US_STATE_TIMEZONES[state_code]
                 ELSE IF country = "CA" /\ state_code \in DOMAIN CANADA_PROVINCE_TIMEZONES
                 THEN CANADA_PROVINCE_TIMEZONES[state_code]
                 ELSE by_metro

\* Person.get_timezone: the zone name, or NoTimezone when a table misses
get_timezone(person) ==
    IF Len(person.location) # 3
    THEN IF person.metro \notin DOMAIN METRO_TIMEZONES
         THEN NoTimezone
         ELSE METRO_TIMEZONES[person.metro]
    ELSE LET state_code == person.location[2]
             country == person.location[3]
         IN  IF country = "US"
             THEN IF state_code \notin DOMAIN US_STATE_TIMEZONES
                  THEN NoTimezone
                  ELSE US_STATE_TIMEZONES[state_code]
             ELSE IF country = "CA"
             THEN IF state_code \notin DOMAIN CANADA_PROVINCE_TIMEZONES
                  THEN NoTimezone
                  ELSE CANADA_PROVINCE_TIMEZONES[state_code]
             ELSE IF person.metro \notin DOMAIN METRO_TIMEZONES
                  THEN NoTimezone
                  ELSE METRO_TIMEZONES[person.metro]

\* what the message of the ValueError names: the table that missed, and the
\* key it was asked for
timezone_error(person) ==
    IF Len(person.location) # 3
    THEN <<"metro", person.metro>>
    ELSE LET state_code == person.location[2]
             country == person.location[3]
         IN  IF country = "US" THEN <<"US state", state_code>>
             ELSE IF country = "CA" THEN <<"Canadian province", state_code>>
             ELSE <<"metro", person.metro>>

\* standard-time offset from UTC, in minutes, of the zones the directory uses
UtcOffset(tz) ==
    CASE tz = "America/New_York" -> -(5 * 60)
      [] tz = "America/Chicago" -> -(6 * 60)
      [] tz = "America/Los_Angeles" -> -(8 * 60)
      [] tz = "Europe/London" -> 0
      [] tz = "Asia/Kolkata" -> 5 * 60 + 30
      [] tz = "Asia/Singapore" -> 8 * 60

\* datetime.astimezone(tz): the same instant on the zone's local clock
astimezone(t, tz) == t + UtcOffset(tz)

-----------------------------------------------------------------------------
(* The directory (PersonManager) and the organizer *)

Email(user) == <<user, "x.com">>

organizer ==
    [name |-> <<"O", "z", " ", "K", "i", "m">>, email |-> Email("oz"),
     response_status |-> "needsAction"]

\* a start date is the list of the space-separated parts of the CSV cell; a
\* manager is a name
Person(name, user, metro, location) ==
    [name |-> name, email |-> Email(user), title |-> "Engineer", level |-> "L4",
     start_date |-> <<"Jan", 1, 2020>>, tenure |-> "5y", metro |-> metro,
     location |-> location, manager |-> <<"S", "u", " ", "L", "i">>,
     role |-> "None"]

\* a colleague in New York
Colleague(name, user) ==
    Person(name, user, "USD - SF/NY", <<"New York", "NY", "US">>)

\* PersonManager._people_by_email
people_by_email ==
    (Email("al") :> Person(<<"A", "l", " ", "R", "a", "y">>, "al",
                           "USD - SF/NY", <<"New York", "NY", "US">>)) @@
    (Email("bo") :> [Person(<<"B", "o", " ", "L", "e", "e">>, "bo",
                            "USD - USA", <<"San Francisco", "CA", "US">>)
                        EXCEPT !.role = "Staff"]) @@
    (Email("cy") :> Person(<<"C", "y", " ", "P", "o", "e">>, "cy",
                           "GBP - UK", <<"London">>)) @@
    (Email("di") :> Person(<<"D", "i", " ", "F", "o", "x">>, "di",
                           "EUR - France", <<"Paris", "IDF", "FR">>)) @@
    \* two people of another email domain, the first with a namesake username
    \* at the configured domain
    (<<"ed", "y.org">> :> [Colleague(<<"E", "d", " ", "R", "o", "e">>, "ed")
                           EXCEPT !.email = <<"ed", "y.org">>]) @@
    (Email("ed") :> [Colleague(<<"E", "d", "a", " ", "Y", "u">>, "ed")
                     EXCEPT !.role = "Lead"]) @@
    (<<"fy", "y.org">> :> [Colleague(<<"F", "y", " ", "W", "u">>, "fy")
                           EXCEPT !.email = <<"fy", "y.org">>]) @@
    \* a title and no role that the config maps
    (Email("gi") :> [Colleague(<<"G", "i", " ", "N", "g">>, "gi")
                     EXCEPT !.title = "Fellow"]) @@
    \* managed by the organizer
    (Email("hy") :> [Colleague(<<"H", "y", " ", "M", "a">>, "hy")
                     EXCEPT !.manager = organizer.name]) @@
    \* on the config's ignore list
    (Email("io") :> Colleague(<<"I", "o", " ", "H", "u">>, "io")) @@
    \* starts in the future
    (Email("jo") :> [Colleague(<<"J", "o", " ", "X", "u">>, "jo")
                     EXCEPT !.start_date = <<"Mar", 1, 2027>>]) @@
    \* a start date strptime cannot parse
    (Email("ky") :> [Colleague(<<"K", "y", " ", "L", "u">>, "ky")
                     EXCEPT !.start_date = <<"TBD">>])

\* the rows of the organization CSV, in the order the dict is filled and
\* iterated
organization ==
    << Email("al"), Email("bo"), Email("cy"), Email("di"), <<"ed", "y.org">>,
       Email("ed"), <<"fy", "y.org">>, Email("gi"), Email("hy"), Email("io"),
       Email("jo"), Email("ky") >>

\* an address the directory does not hold
Stranger == Email("zz")

\* PersonManager.by_email returns a person for exactly these
HasPerson(email) == email \in DOMAIN people_by_email

by_email(email) == people_by_email[email]

-----------------------------------------------------------------------------
(* Calendar events and GoogleCalendarClient.search_events *)

Attendee(email, status) ==
    [name |-> <<>>, email |-> email, response_status |-> status]

Event(id, title, start, end, attendees) ==
    [id |-> id, title |-> title, start_time |-> start, end_time |-> end,
     attendees |-> attendees]

\* calendar ids: the organizer's own calendar, the calendar the config names
\* as slot_calendar, and a person's calendar under the person's email
PrimaryId == <<"primary">>
SlotCalendarId == <<"slots">>

\* the events the backend holds for a calendar id
events_of(calendar_id) ==
    IF calendar_id = PrimaryId THEN primary_calendar
    ELSE IF calendar_id = SlotCalendarId THEN slot_calendar
    ELSE person_calendars[calendar_id]

\* the backend's events.list: the events of the calendar that overlap
\* (timeMin, timeMax) and match q, where q = "" matches every event
events_list(calendar_id, query, start_time, end_time) ==
    SelectSeq(events_of(calendar_id),
              LAMBDA ev : /\ ev.start_time < end_time
                          /\ ev.end_time > start_time
                          /\ Contains(ev.title, query))

\* GoogleCalendarClient.search_events: the HttpError of a query the backend
\* fails is caught, and the empty list returned in its place
search_events(calendar_id, query, start_time, end_time) ==
    IF calendar_id \in failing
    THEN <<>>
    ELSE events_list(calendar_id, query, start_time, end_time)


-----------------------------------------------------------------------------
(* OneOnOneManager.is_person_free *)

business_start == Time(9, 0)
business_end == Time(17, 0)
lunch_start == Time(12, 0)
lunch_end == Time(13, 0)

Focus == <<"F", "o", "c", "u", "s">>

\* PersonConflicts with the test of the title left out
PersonConflicts_MultiOnly(events) ==
    SelectSeq(events, LAMBDA ev : Len(ev.attendees) > 1)

\* the conflicts list of is_person_free
PersonConflicts(events) ==
    SelectSeq(events, LAMBDA ev : Len(ev.attendees) > 1 \/ Contains(ev.title, Focus))

\* The statement at which is_person_free leaves: "not_found" and "no_timezone"
\* are the two ValueErrors raised, "hours", "lunch" and "conflict" the three
\* places it returns False or a non-empty conflict list, "free" is True.
is_person_free_exit(time, email) ==
    IF ~HasPerson(email) THEN "not_found"
    ELSE LET person == by_email(email)
             tz == get_timezone(person)
         IN  IF tz = NoTimezone THEN "no_timezone"
             ELSE LET local_time == astimezone(time, tz)
                      local_tod == TimeOfDay(local_time)
                      meeting_end_time == TimeOfDay(local_time + SlotMinutes)
                  IN  IF ~(business_start <= local_tod /\ meeting_end_time <= business_end)
                      THEN "hours"
                      ELSE IF \/ (lunch_start <= local_tod /\ local_tod <= lunch_end)
                              \/ (lunch_start <= meeting_end_time /\ meeting_end_time <= lunch_end)
                      THEN "lunch"
                      ELSE LET meeting_end == time + SlotMinutes
                               events == search_events(email, <<>>,
                                                       time, meeting_end)
                           IN  IF Len(PersonConflicts(events)) = 0
                               THEN "free" ELSE "conflict"

\* is_person_free raises for these exits and returns a boolean for the others
Raises(exit) == exit \in {"not_found", "no_timezone"}

-----------------------------------------------------------------------------
(* Calendars the checks are run against *)

\* a meeting with a second attendee, 19:00-19:30 UTC
Sync(email) ==
    Event("sync", <<"S", "y", "n", "c">>, Time(19, 0), Time(19, 30),
          <<Attendee(email, "accepted"), Attendee(Email("pat"), "accepted")>>)

\* a single-attendee focus block, 19:30-20:30 UTC
FocusTime(email) ==
    Event("focus", <<"F", "o", "c", "u", "s", " ", "t", "i", "m", "e">>,
          Time(19, 30), Time(20, 30), <<Attendee(email, "accepted")>>)

\* a single-attendee personal block, 16:00-16:30 UTC
Gym(email) ==
    Event("gym", <<"G", "y", "m">>, Time(16, 0), Time(16, 30),
          <<Attendee(email, "accepted")>>)

EmptyCalendars == [e \in DOMAIN people_by_email |-> <<>>]
BusyCalendars == [e \in DOMAIN people_by_email |-> <<Gym(e), Sync(e), FocusTime(e)>>]

\* every query is answered, and nothing but the operation under check runs
OthersIdle ==
    /\ failing = {}
    /\ now = 0
    /\ unit_op = "none"
    /\ unit_person = <<>>
    /\ unit_arg = <<>>
    /\ unit_out = <<>>
    /\ due_user = ""
    /\ days_back = 0
    /\ last_out = <<>>
    /\ next_out = <<>>
    /\ booked = <<>>
    /\ refresh_pc = "idle"
    /\ computed = <<>>
    /\ prior_snapshot = <<>>
    /\ snapshot_whole = TRUE
    /\ first_run = <<>>

\* the recommend command is not run
RecommendIdle ==
    /\ snapshot = <<>>
    /\ dry_run = FALSE
    /\ slots = <<>>
    /\ next_meetings = <<>>
    /\ si = 0
    /\ ci = 0
    /\ pc = "idle"
    /\ log = <<>>

-----------------------------------------------------------------------------
(* SpecFree: is_person_free applied to drawn arguments *)

InitFree ==
    /\ meeting_time \in 0..(MaxDays * MinutesPerDay - 1)
    /\ person_email \in DOMAIN people_by_email \cup {Stranger}
    /\ person_calendars \in {EmptyCalendars, BusyCalendars}
    /\ free_exit = "pending"
    /\ slot_calendar = <<>>
    /\ primary_calendar = <<>>
    /\ slots_returned = FALSE
    /\ free_slots = <<>>
    /\ RecommendIdle
    /\ OthersIdle

CheckPersonFree ==
    /\ free_exit = "pending"
    /\ free_exit' = is_person_free_exit(meeting_time, person_email)
    /\ UNCHANGED <<clock_vars, unit_vars, due_vars, refresh_vars,
                   calendars, meeting_time, person_email, slots_vars, recommend_vars>>

NextFree == CheckPersonFree

SpecFree == InitFree /\ [][NextFree]_vars

\* the person's local time of day for the drawn instant
LocalStart == TimeOfDay(astimezone(meeting_time, get_timezone(by_email(person_email))))

\* is_person_free returned a boolean for the drawn arguments
Returned == free_exit \in {"hours", "lunch", "conflict", "free"}

\* C1: is_person_free returns False unless the local start t has 09:00 <= t
\* and the 30-minute window ends at or before 17:00 of the same local day.
C1_BusinessHours ==
    free_exit = "free" =>
        /\ business_start <= LocalStart
        /\ LocalStart + SlotMinutes <= business_end

\* C10: is_person_free rejects on the lunch rule exactly when the local
\* window [t, t+30min) overlaps [12:00, 13:00).
C10_LunchRule ==
    (Returned /\ free_exit # "hours") =>
        (free_exit = "lunch" <=>
            (LocalStart < lunch_end /\ LocalStart + SlotMinutes > lunch_start))


\* the events of the drawn person's calendar that overlap the 30-minute
\* window of the drawn instant
WindowEvents ==
    { ev \in { person_calendars[person_email][i] :
                 i \in 1..Len(person_calendars[person_email]) } :
        ev.start_time < meeting_time + SlotMinutes /\ ev.end_time > meeting_time }

\* C11: for a candidate that passes the business-hours and lunch rules,
\* is_person_free returns False if and only if some event overlapping the
\* window on the person's own calendar has more than one attendee or has a
\* title containing "Focus".
C11_PersonConflictRule ==
    free_exit \in {"conflict", "free"} =>
        (free_exit = "conflict" <=>
            \E ev \in WindowEvents :
                Len(ev.attendees) > 1 \/ Contains(ev.title, Focus))

\* a person is refused over nothing but a single-attendee focus block
C11_Witness ==
    /\ free_exit = "conflict"
    /\ WindowEvents # {}
    /\ \A ev \in WindowEvents : Len(ev.attendees) = 1 /\ Contains(ev.title, Focus)

-----------------------------------------------------------------------------
(* OneOnOneManager.get_free_slots *)

\* config['organizer']['slot_title']
slot_title == <<"1", ":", "1", " ", "s", "l", "o", "t">>

\* OrganizerConflicts with the comparison to the organizer's email left out:
\* any declined attendee frees the step
OrganizerConflicts_AnyDeclined(events) ==
    SelectSeq(events,
              LAMBDA ev : /\ Len(ev.attendees) > 1
                          /\ ~\E i \in 1..Len(ev.attendees) :
                                 has_declined(ev.attendees[i]))

\* the conflicts list of get_free_slots: events with more than one attendee
\* that the organizer has not declined
OrganizerConflicts(events) ==
    SelectSeq(events,
              LAMBDA ev : /\ Len(ev.attendees) > 1
                          /\ ~\E i \in 1..Len(ev.attendees) :
                                 /\ ev.attendees[i].email = organizer.email
                                 /\ has_declined(ev.attendees[i]))

\* WalkBlock with the step that starts at the end of the block walked too
RECURSIVE WalkBlock_ThroughEnd(_, _)
WalkBlock_ThroughEnd(current_time, block_end) ==
    IF ~(current_time <= block_end) THEN <<>>
    ELSE LET slot_end == current_time + SlotMinutes
             events == search_events(PrimaryId, <<>>, current_time, slot_end)
             here == IF Len(OrganizerConflicts(events)) = 0
                     THEN <<current_time>> ELSE <<>>
         IN  here \o WalkBlock_ThroughEnd(slot_end, block_end)

\* the while loop over one block, from current_time
RECURSIVE WalkBlock(_, _)
WalkBlock(current_time, block_end) ==
    IF ~(current_time < block_end) THEN <<>>
    ELSE LET slot_end == current_time + SlotMinutes
             events == search_events(PrimaryId, <<>>, current_time, slot_end)
             here == IF Len(OrganizerConflicts(events)) = 0
                     THEN <<current_time>> ELSE <<>>
         IN  here \o WalkBlock(slot_end, block_end)

\* the for loop over the blocks
RECURSIVE WalkBlocks(_)
WalkBlocks(time_blocks) ==
    IF time_blocks = <<>> THEN <<>>
    ELSE WalkBlock(Head(time_blocks).start_time, Head(time_blocks).end_time)
             \o WalkBlocks(Tail(time_blocks))

\* sorted(list)
sorted(list) == SortSeq(list, LAMBDA a, b : a < b)

get_free_slots(start_date, end_date) ==
    LET time_blocks == search_events(SlotCalendarId, slot_title, start_date, end_date)
    IN  IF time_blocks = <<>> THEN <<>>
        ELSE sorted(WalkBlocks(time_blocks))

-----------------------------------------------------------------------------
(* SpecSlots: get_free_slots applied to drawn calendars *)

SlotBlock(id, start, end) == Event(id, slot_title, start, end, <<>>)

\* events the slot calendar can hold: three slot blocks, two of them
\* overlapping and one ending off the 30-minute grid, and one other entry
BlockPool ==
    { SlotBlock("A", Time(16, 0), Time(17, 0)),
      SlotBlock("B", Time(15, 30), Time(16, 30)),
      SlotBlock("C", Time(19, 0), Time(19, 45)),
      Event("D", <<"H", "o", "l", "d">>, Time(18, 0), Time(19, 0), <<>>) }

\* the lists of at most n distinct events of the pool, in any order
RECURSIVE Listings(_, _)
Listings(pool, n) ==
    IF n = 0 THEN {<<>>}
    ELSE {<<>>} \cup { <<b>> \o rest : b \in pool, rest \in Listings(pool, n - 1) }

Distinct(list) == \A i, j \in 1..Len(list) : i # j => list[i] # list[j]

\* events of the organizer's primary calendar
TeamMeeting ==
    Event("m1", <<"T", "e", "a", "m">>, Time(16, 0), Time(16, 30),
          <<Attendee(organizer.email, "accepted"), Attendee(Email("al"), "accepted")>>)
DeclinedMeeting ==
    Event("m2", <<"D", "e", "m", "o">>, Time(16, 30), Time(17, 0),
          <<Attendee(organizer.email, "declined"), Attendee(Email("bo"), "accepted")>>)
OrganizerFocus ==
    Event("m3", <<"F", "o", "c", "u", "s">>, Time(15, 30), Time(16, 0),
          <<Attendee(organizer.email, "accepted")>>)
OthersMeeting ==
    Event("m4", <<"S", "y", "n", "c">>, Time(19, 15), Time(19, 45),
          <<Attendee(Email("al"), "declined"), Attendee(Email("bo"), "accepted")>>)

PrimaryPool == <<TeamMeeting, DeclinedMeeting, OrganizerFocus, OthersMeeting>>

\* a slot block from 09:00 to 10:00, and a meeting of the organizer with a
\* second attendee from 09:00 to 09:30
MorningBlock == SlotBlock("M", Time(9, 0), Time(10, 0))
MorningMeeting ==
    Event("m0", <<"P", "l", "a", "n">>, Time(9, 0), Time(9, 30),
          <<Attendee(organizer.email, "accepted"), Attendee(Email("cy"), "accepted")>>)

\* the primary calendars: every sublist of the pool after the morning meeting
PrimaryChoices ==
    { SelectSeq(<<MorningMeeting>> \o PrimaryPool, LAMBDA ev : ev \in keep) :
        keep \in SUBSET ({MorningMeeting} \cup { PrimaryPool[i] : i \in 1..Len(PrimaryPool) }) }

\* the date range the slot search is run over
RangeStart == Time(0, 0)
RangeEnd == MaxDays * MinutesPerDay

InitSlots ==
    /\ slot_calendar \in { l \in Listings(BlockPool \cup {MorningBlock}, MaxBlocks) :
                             Distinct(l) }
    /\ primary_calendar \in PrimaryChoices
    /\ person_calendars = EmptyCalendars
    /\ meeting_time = 0
    /\ person_email = Stranger
    /\ free_exit = "pending"
    /\ slots_returned = FALSE
    /\ free_slots = <<>>
    /\ RecommendIdle
    /\ OthersIdle

GetFreeSlots ==
    /\ ~slots_returned
    /\ slots_returned' = TRUE
    /\ free_slots' = get_free_slots(RangeStart, RangeEnd)
    /\ UNCHANGED <<clock_vars, unit_vars, due_vars, refresh_vars,
                   calendars, free_vars, recommend_vars>>

NextSlots == GetFreeSlots

SpecSlots == InitSlots /\ [][NextSlots]_vars

\* C8: the list get_free_slots returns is strictly ascending, so it holds
\* no instant twice.
C8_StrictlyAscending ==
    slots_returned =>
        \A i \in 1..(Len(free_slots) - 1) : free_slots[i] < free_slots[i + 1]

\* the slot blocks of the slot calendar
FoundBlocks ==
    { slot_calendar[i] : i \in { j \in 1..Len(slot_calendar) :
                                    Contains(slot_calendar[j].title, slot_title) } }

\* the 30-minute steps of the slot blocks: block.start + k*30min before block.end
BlockSteps ==
    UNION { { b.start_time + k * SlotMinutes :
                k \in 0..((b.end_time - b.start_time) \div SlotMinutes) }
            \cap b.start_time..(b.end_time - 1) : b \in FoundBlocks }

\* the step starting at s is overlapped by a multi-attendee event of the
\* primary calendar of which the organizer is not a declined attendee
Blocked(s) ==
    \E i \in 1..Len(primary_calendar) :
        LET ev == primary_calendar[i]
        IN  /\ ev.start_time < s + SlotMinutes
            /\ ev.end_time > s
            /\ Len(ev.attendees) > 1
            /\ \A a \in 1..Len(ev.attendees) :
                   ev.attendees[a].email = organizer.email
                       => ev.attendees[a].response_status # "declined"

Returns(s) == \E i \in 1..Len(free_slots) : free_slots[i] = s

\* C9: a step of a slot block is left out of the result if and only if an
\* overlapping primary-calendar event has more than one attendee and the
\* organizer is not a declined attendee of it.
C9_ConflictRule ==
    slots_returned => \A s \in BlockSteps : (~Returns(s)) <=> Blocked(s)

\* a step under a declined meeting and a step under a focus block are both
\* returned, while a step under an accepted meeting is left out
C9_Witness ==
    /\ slots_returned
    /\ Returns(Time(16, 30)) /\ Returns(Time(15, 30)) /\ ~Returns(Time(16, 0))
    /\ \E i \in 1..Len(primary_calendar) : primary_calendar[i] = DeclinedMeeting
    /\ \E i \in 1..Len(primary_calendar) : primary_calendar[i] = OrganizerFocus
    /\ \E i \in 1..Len(primary_calendar) : primary_calendar[i] = TeamMeeting

\* C22: the instants get_free_slots returns are exactly the instants
\* block.start + k*30min, k >= 0, before block.end of some slot block that
\* are not conflicts; with no slot block the list is empty; and a block from
\* 09:00 to 10:00 with a multi-attendee event from 09:00 to 09:30 gives the
\* one slot 09:30.
C22_ExactlyFreeSteps ==
    slots_returned =>
        /\ { free_slots[i] : i \in 1..Len(free_slots) } =
              { s \in RangeStart..(RangeEnd + MinutesPerDay) :
                  /\ \E b \in FoundBlocks :
                        \E k \in 0..(MinutesPerDay \div SlotMinutes) :
                            s = b.start_time + k * SlotMinutes /\ s < b.end_time
                  /\ ~Blocked(s) }
        /\ FoundBlocks = {} => free_slots = <<>>
        /\ (/\ slot_calendar = <<MorningBlock>>
            /\ \E i \in 1..Len(primary_calendar) : primary_calendar[i] = MorningMeeting) =>
               free_slots = <<Time(9, 30)>>

\* the 09:00-10:00 block with the 09:00-09:30 meeting gave the slot 09:30
C22_Witness ==
    /\ slots_returned
    /\ slot_calendar = <<MorningBlock>>
    /\ \E i \in 1..Len(primary_calendar) : primary_calendar[i] = MorningMeeting
    /\ free_slots = <<Time(9, 30)>>


-----------------------------------------------------------------------------
(* OneOnOneManager.load_next_meetings and OneOnOneManager.schedule *)

\* datetime.fromisoformat of a date-only string: midnight of that day
fromisoformat(day) == day * MinutesPerDay

\* datetime.date(): the day an instant falls on
date(t) == t \div MinutesPerDay

\* one step of the stable sort by x[1]: x goes behind every entry that does
\* not sort after it
RECURSIVE InsertByDate(_, _)
InsertByDate(list, x) ==
    IF list = <<>> THEN <<x>>
    ELSE IF x[2] < Head(list)[2] THEN <<x>> \o list
    ELSE <<Head(list)>> \o InsertByDate(Tail(list), x)

\* sorted(meetings, key=lambda x: x[1])
RECURSIVE SortedByDate(_)
SortedByDate(meetings) ==
    IF meetings = <<>> THEN <<>>
    ELSE InsertByDate(SortedByDate(SubSeq(meetings, 1, Len(meetings) - 1)),
                      meetings[Len(meetings)])

\* load_next_meetings with the final sort left out
load_next_meetings_unsorted(data) ==
    [i \in 1..Len(data) |-> <<data[i][1], fromisoformat(data[i][2])>>]

\* the file's entries parsed, in ascending order of date
load_next_meetings(data) ==
    SortedByDate([i \in 1..Len(data) |-> <<data[i][1], fromisoformat(data[i][2])>>])

Slash == <<" ", "/", " ">>

\* schedule with the organizer left out of the attendees
schedule_person_only(email, start_time, end_time) ==
    [attendee_emails |-> <<email>>,
     start_time |-> start_time,
     end_time |-> end_time,
     title |-> first_name(by_email(email)) \o Slash \o first_name(organizer)]

\* the booking call OneOnOneManager.schedule makes for a known person
schedule(email, start_time, end_time) ==
    [attendee_emails |-> <<email, organizer.email>>,
     start_time |-> start_time,
     end_time |-> end_time,
     title |-> first_name(by_email(email)) \o Slash \o first_name(organizer)]

\* the event GoogleCalendarClient.schedule_meeting gets back for a call
created_event(call) ==
    Event("new", call.title, call.start_time, call.end_time,
          [i \in 1..Len(call.attendee_emails) |->
              Attendee(call.attendee_emails[i], "needsAction")])

NoCall == [attendee_emails |-> <<>>, start_time |-> 0, end_time |-> 0, title |-> <<>>]

-----------------------------------------------------------------------------
(* cli.recommend, from the slot search on *)

\* the candidate the inner loop is at
Candidate == next_meetings[ci]

\* what the run did at the current (slot, candidate) pair, with the due-list
\* as it was when the pair was reached
Entry(op, res, call) ==
    [op |-> op, si |-> si, ci |-> ci, email |-> Candidate[1],
     next_date |-> Candidate[2], list |-> next_meetings, res |-> res, call |-> call]

\* next_meetings.remove((email, next_date)): the first equal entry goes
RECURSIVE remove(_, _)
remove(list, x) ==
    IF list = <<>> THEN <<>>
    ELSE IF Head(list) = x THEN Tail(list)
    ELSE <<Head(list)>> \o remove(Tail(list), x)

\* the slot search and the load of the snapshot, up to the first slot
FindSlotsAndLoad ==
    /\ pc = "start"
    /\ LET found == get_free_slots(RangeStart, RangeEnd)
           loaded == load_next_meetings(snapshot)
       IN  /\ slots' = found
           /\ IF found = <<>>
              THEN /\ pc' = "no_slots"
                   /\ UNCHANGED <<next_meetings, si, ci>>
              ELSE /\ next_meetings' = loaded
                   /\ IF loaded = <<>>
                      THEN pc' = "no_meetings" /\ UNCHANGED <<si, ci>>
                      ELSE pc' = "loop" /\ si' = 1 /\ ci' = 1
    /\ UNCHANGED <<clock_vars, unit_vars, due_vars, refresh_vars,
                   calendars, free_vars, slots_vars, snapshot, dry_run, log>>

\* for slot in slots: the slots are used up
Finish ==
    /\ pc = "loop"
    /\ si > Len(slots)
    /\ pc' = "done"
    /\ UNCHANGED <<clock_vars, unit_vars, due_vars, refresh_vars,
                   calendars, free_vars, slots_vars, snapshot, dry_run, slots,
                   next_meetings, si, ci, log>>

\* for email, next_date in next_meetings: the candidates of this slot are used up
NextSlot ==
    /\ pc = "loop"
    /\ si <= Len(slots)
    /\ ci > Len(next_meetings)
    /\ si' = si + 1
    /\ ci' = 1
    /\ UNCHANGED <<clock_vars, unit_vars, due_vars, refresh_vars,
                   calendars, free_vars, slots_vars, snapshot, dry_run, slots,
                   next_meetings, pc, log>>

AtCandidate == pc = "loop" /\ si <= Len(slots) /\ ci <= Len(next_meetings)

\* continue: on to the next candidate of the same slot
NextCandidate(entry) ==
    /\ ci' = ci + 1
    /\ log' = Append(log, entry)
    /\ UNCHANGED <<clock_vars, unit_vars, due_vars, refresh_vars,
                   calendars, free_vars, slots_vars, snapshot, dry_run, slots,
                   next_meetings, si, pc>>

\* if not person: continue
SkipUnknown ==
    /\ AtCandidate
    /\ ~HasPerson(Candidate[1])
    /\ NextCandidate(Entry("skip", "unknown", NoCall))

\* if next_date.date() > end.date(): continue
SkipNotDue ==
    /\ AtCandidate
    /\ HasPerson(Candidate[1])
    /\ date(Candidate[2]) > date(RangeEnd)
    /\ NextCandidate(Entry("skip", "not_due", NoCall))

Checkable ==
    /\ AtCandidate
    /\ HasPerson(Candidate[1])
    /\ ~(date(Candidate[2]) > date(RangeEnd))

\* CheckRaises with the error left to the outer handler: the run ends
CheckRaises_EndsRun ==
    /\ Checkable
    /\ LET exit == is_person_free_exit(slots[si], Candidate[1])
       IN  /\ Raises(exit)
           /\ log' = Append(log, Entry("check", exit, NoCall))
    /\ pc' = "returned"
    /\ UNCHANGED <<clock_vars, unit_vars, due_vars, refresh_vars,
                   calendars, free_vars, slots_vars, snapshot, dry_run, slots,
                   next_meetings, si, ci>>

\* is_person_free raises ValueError: except ValueError ... continue
CheckRaises ==
    /\ Checkable
    /\ LET exit == is_person_free_exit(slots[si], Candidate[1])
       IN  /\ Raises(exit)
           /\ NextCandidate(Entry("check", exit, NoCall))

\* is_person_free returns False: on to the next candidate
CheckNotFree ==
    /\ Checkable
    /\ LET exit == is_person_free_exit(slots[si], Candidate[1])
       IN  /\ exit \in {"hours", "lunch", "conflict"}
           /\ NextCandidate(Entry("check", exit, NoCall))

\* Present with the result of is_person_free not looked at
Present_AnyResult ==
    /\ Checkable
    /\ LET exit == is_person_free_exit(slots[si], Candidate[1])
       IN  /\ ~Raises(exit)
           /\ log' = log \o <<Entry("check", exit, NoCall),
                              Entry("present", "shown", NoCall)>>
    /\ pc' = "await"
    /\ UNCHANGED <<clock_vars, unit_vars, due_vars, refresh_vars,
                   calendars, free_vars, slots_vars, snapshot, dry_run, slots,
                   next_meetings, si, ci>>

\* is_person_free returns True: the suggestion is shown and the operator asked
Present ==
    /\ Checkable
    /\ is_person_free_exit(slots[si], Candidate[1]) = "free"
    /\ pc' = "await"
    /\ log' = log \o <<Entry("check", "free", NoCall), Entry("present", "shown", NoCall)>>
    /\ UNCHANGED <<clock_vars, unit_vars, due_vars, refresh_vars,
                   calendars, free_vars, slots_vars, snapshot, dry_run, slots,
                   next_meetings, si, ci>>

\* RemoveAndBreak with the remove left out
RemoveAndBreak_KeepsPerson ==
    /\ next_meetings' = next_meetings
    /\ si' = si + 1
    /\ ci' = 1
    /\ pc' = "loop"

\* next_meetings.remove(...); break
RemoveAndBreak ==
    /\ next_meetings' = remove(next_meetings, Candidate)
    /\ si' = si + 1
    /\ ci' = 1
    /\ pc' = "loop"

\* ConfirmDryRun with the booking call made all the same
ConfirmDryRun_Books ==
    /\ pc = "await"
    /\ dry_run
    /\ LET end_time == slots[si] + SlotMinutes
           call == schedule(Candidate[1], slots[si], end_time)
       IN  /\ primary_calendar' = Append(primary_calendar, created_event(call))
           /\ log' = log \o <<Entry("confirm", "dry_run", NoCall),
                              Entry("schedule", "ok", call)>>
    /\ RemoveAndBreak
    /\ UNCHANGED <<clock_vars, unit_vars, due_vars, refresh_vars,
                   slot_calendar, person_calendars, free_vars, slots_vars,
                   snapshot, dry_run, slots>>

\* confirm under --dry-run: nothing is booked
ConfirmDryRun ==
    /\ pc = "await"
    /\ dry_run
    /\ log' = Append(log, Entry("confirm", "dry_run", NoCall))
    /\ RemoveAndBreak
    /\ UNCHANGED <<clock_vars, unit_vars, due_vars, refresh_vars,
                   calendars, free_vars, slots_vars, snapshot, dry_run, slots>>

\* ConfirmBooked with the booked person's entry taken out of the file too
ConfirmBooked_UpdatesSnapshot ==
    /\ pc = "await"
    /\ ~dry_run
    /\ LET end_time == slots[si] + SlotMinutes
           call == schedule(Candidate[1], slots[si], end_time)
       IN  /\ primary_calendar' = Append(primary_calendar, created_event(call))
           /\ log' = log \o <<Entry("confirm", "yes", NoCall),
                              Entry("schedule", "ok", call)>>
    /\ snapshot' = SelectSeq(snapshot, LAMBDA e : e[1] # Candidate[1])
    /\ RemoveAndBreak
    /\ UNCHANGED <<clock_vars, unit_vars, due_vars, refresh_vars,
                   slot_calendar, person_calendars, free_vars, slots_vars,
                   dry_run, slots>>

\* confirm, and the booking call succeeds
ConfirmBooked ==
    /\ pc = "await"
    /\ ~dry_run
    /\ LET end_time == slots[si] + SlotMinutes
           call == schedule(Candidate[1], slots[si], end_time)
       IN  /\ primary_calendar' = Append(primary_calendar, created_event(call))
           /\ log' = log \o <<Entry("confirm", "yes", NoCall),
                              Entry("schedule", "ok", call)>>
    /\ RemoveAndBreak
    /\ UNCHANGED <<clock_vars, unit_vars, due_vars, refresh_vars,
                   slot_calendar, person_calendars, free_vars, slots_vars,
                   snapshot, dry_run, slots>>

\* confirm, the booking call fails, and the operator continues
ConfirmFailedContinue ==
    /\ pc = "await"
    /\ ~dry_run
    /\ LET end_time == slots[si] + SlotMinutes
           call == schedule(Candidate[1], slots[si], end_time)
       IN  log' = log \o <<Entry("confirm", "yes", NoCall),
                           Entry("schedule", "failed", call),
                           Entry("continue", "yes", NoCall)>>
    /\ RemoveAndBreak
    /\ UNCHANGED <<clock_vars, unit_vars, due_vars, refresh_vars,
                   calendars, free_vars, slots_vars, snapshot, dry_run, slots>>

\* confirm, the booking call fails, and the operator does not continue: return
ConfirmFailedReturn ==
    /\ pc = "await"
    /\ ~dry_run
    /\ LET end_time == slots[si] + SlotMinutes
           call == schedule(Candidate[1], slots[si], end_time)
       IN  log' = log \o <<Entry("confirm", "yes", NoCall),
                           Entry("schedule", "failed", call),
                           Entry("continue", "no", NoCall)>>
    /\ pc' = "returned"
    /\ UNCHANGED <<clock_vars, unit_vars, due_vars, refresh_vars,
                   calendars, free_vars, slots_vars, snapshot, dry_run, slots,
                   next_meetings, si, ci>>

\* DeclinePerson with a break in place of the fall-through: on to the next slot
DeclinePerson_NextSlot ==
    /\ pc = "await"
    /\ pc' = "loop"
    /\ si' = si + 1
    /\ ci' = 1
    /\ log' = Append(log, Entry("decline", "next", NoCall))
    /\ UNCHANGED <<clock_vars, unit_vars, due_vars, refresh_vars,
                   calendars, free_vars, slots_vars, snapshot, dry_run, slots,
                   next_meetings>>

\* DeclinePerson with the loop staying at the declined candidate
DeclinePerson_SameCandidate ==
    /\ pc = "await"
    /\ pc' = "loop"
    /\ log' = Append(log, Entry("decline", "next", NoCall))
    /\ UNCHANGED <<clock_vars, unit_vars, due_vars, refresh_vars,
                   calendars, free_vars, slots_vars, snapshot, dry_run, slots,
                   next_meetings, si, ci>>

\* the operator declines the person and does not stop: next candidate
DeclinePerson ==
    /\ pc = "await"
    /\ pc' = "loop"
    /\ ci' = ci + 1
    /\ log' = Append(log, Entry("decline", "next", NoCall))
    /\ UNCHANGED <<clock_vars, unit_vars, due_vars, refresh_vars,
                   calendars, free_vars, slots_vars, snapshot, dry_run, slots,
                   next_meetings, si>>

\* Stop with the return left out: the loop goes on with the next candidate
Stop_GoesOn ==
    /\ pc = "await"
    /\ pc' = "loop"
    /\ ci' = ci + 1
    /\ log' = Append(log, Entry("stop", "stop", NoCall))
    /\ UNCHANGED <<clock_vars, unit_vars, due_vars, refresh_vars,
                   calendars, free_vars, slots_vars, snapshot, dry_run, slots,
                   next_meetings, si>>

\* the operator declines the person and stops: return
Stop ==
    /\ pc = "await"
    /\ pc' = "stopped"
    /\ log' = Append(log, Entry("stop", "stop", NoCall))
    /\ UNCHANGED <<clock_vars, unit_vars, due_vars, refresh_vars,
                   calendars, free_vars, slots_vars, snapshot, dry_run, slots,
                   next_meetings, si, ci>>

\* the calendars of the people of the directory
MixedCalendars ==
    (Email("al") :> <<Sync(Email("al"))>>) @@ (Email("bo") :> <<FocusTime(Email("bo"))>>) @@
    (Email("cy") :> <<Gym(Email("cy"))>>) @@ EmptyCalendars

\* the last day of the range, end.date()
EndDay == date(RangeEnd)

\* snapshot files: out of date order with a tie, with a person due after the
\* range, and with an address the directory lacks and a person without timezone
SnapshotChoices ==
    { << <<Email("cy"), EndDay>>, <<Email("al"), 0>>, <<Email("bo"), 0>> >>,
      << <<Email("bo"), EndDay + 1>>, <<Email("cy"), 0>>, <<Email("al"), EndDay>> >>,
      << <<Stranger, 0>>, <<Email("di"), 0>>, <<Email("bo"), EndDay>>, <<Email("al"), 0>> >>,
      <<>> }

Init ==
    /\ slot_calendar \in { l \in Listings(BlockPool, MaxBlocks) : Distinct(l) }
    /\ primary_calendar \in {<<>>, PrimaryPool}
    /\ person_calendars \in {EmptyCalendars, MixedCalendars}
    /\ meeting_time = 0
    /\ person_email = Stranger
    /\ free_exit = "pending"
    /\ slots_returned = FALSE
    /\ free_slots = <<>>
    /\ snapshot \in SnapshotChoices
    /\ dry_run \in BOOLEAN
    /\ slots = <<>>
    /\ next_meetings = <<>>
    /\ si = 0
    /\ ci = 0
    /\ pc = "start"
    /\ log = <<>>
    /\ OthersIdle

Next ==
    \/ FindSlotsAndLoad
    \/ Finish
    \/ NextSlot
    \/ SkipUnknown
    \/ SkipNotDue
    \/ CheckRaises
    \/ CheckNotFree
    \/ Present
    \/ ConfirmDryRun
    \/ ConfirmBooked
    \/ ConfirmFailedContinue
    \/ ConfirmFailedReturn
    \/ DeclinePerson
    \/ Stop

Spec == Init /\ [][Next]_vars

\* the command keeps running and the operator answers every prompt: a step
\* that can be taken is taken
SpecLive == Init /\ [][Next]_vars /\ WF_vars(Next)

-----------------------------------------------------------------------------
(* Properties of the recommend loop *)

Emails(list) == { list[i][1] : i \in 1..Len(list) }

Steps == 1..Len(log)

\* the booking calls that succeeded
Booked == { i \in Steps : log[i].op = "schedule" /\ log[i].res = "ok" }

\* the run is over
Over == pc \in {"done", "stopped", "returned"}

\* C2: for every slot, the booking collaborator is called successfully at
\* most once with that slot as start time.
C2_OneBookingPerSlot ==
    \A i, j \in Booked :
        log[i].call.start_time = log[j].call.start_time => i = j

\* C3: when a real run is over, the people still in the due-list are exactly
\* the loaded people for whom no meeting was booked in the run.
C3_DeficitIsUnbooked ==
    (Over /\ ~dry_run) =>
        Emails(next_meetings) =
            Emails(load_next_meetings(snapshot)) \ { log[i].email : i \in Booked }

\* the candidates availability-checked, presented or booked
Evaluated == { i \in Steps : log[i].op \in {"check", "present", "schedule"} }

\* C4: slots are processed in ascending time order, the candidates of a
\* slot are evaluated and presented in ascending due-date order of the
\* loaded snapshot, and a person due after the range end is never
\* availability-checked, presented or booked.
C4_Order ==
    /\ \A i, j \in Steps :
          i < j => /\ log[i].si <= log[j].si
                   /\ slots[log[i].si] <= slots[log[j].si]
    /\ \A i, j \in Evaluated :
          (i < j /\ log[i].si = log[j].si) =>
              /\ log[i].ci <= log[j].ci
              /\ log[i].next_date <= log[j].next_date
    /\ \A i \in Evaluated : date(log[i].next_date) <= date(RangeEnd)

\* two people with different due dates were checked for one slot, a later
\* slot was reached, and a person due after the range was passed over
C4_Witness ==
    /\ \E i, j \in Evaluated :
          /\ i < j /\ log[i].si = log[j].si
          /\ log[i].op = "check" /\ log[j].op = "check"
          /\ log[i].next_date < log[j].next_date
    /\ \E i, j \in Evaluated : log[i].si < log[j].si
    /\ \E i \in Steps : log[i].op = "skip" /\ log[i].res = "not_due"

\* C5: once the operator stops, the run is over: nothing is checked,
\* presented or booked after the stop, and the due-list stays as it was.
C5_StopEndsRun ==
    \A i \in Steps :
        log[i].op = "stop" =>
            /\ i = Len(log)
            /\ pc = "stopped"
            /\ next_meetings = log[i].list

\* the operator stopped with slots and candidates still to go
C5_Witness ==
    /\ pc = "stopped"
    /\ log # <<>> /\ log[Len(log)].op = "stop"
    /\ si < Len(slots)
    /\ ci < Len(next_meetings)

\* the booking call a confirm of log entry i has to make
ExpectedCall(i) ==
    [attendee_emails |-> <<log[i].email, Email("oz")>>,
     start_time |-> slots[log[i].si],
     end_time |-> slots[log[i].si] + SlotMinutes,
     title |-> SubSeq(by_email(log[i].email).name, 1, 2) \o <<" ", "/", " ", "O", "z">>]

\* the confirm of entry i is followed by exactly one booking call for its
\* pair, with the slot, the slot plus 30 minutes, the person and the
\* organizer, and the title
BooksOnce(i) ==
    /\ i < Len(log)
    /\ log[i + 1].op = "schedule"
    /\ log[i + 1].call = ExpectedCall(i)
    /\ \A j \in Steps :
          (log[j].op = "schedule" /\ log[j].si = log[i].si /\ log[j].email = log[i].email)
              => j = i + 1

\* after the confirm of entry i the person is off the due-list and the next
\* candidate looked at belongs to the next slot
RemovedAndNextSlot(i) ==
    /\ log[i].email \notin Emails(next_meetings)
    /\ \A j \in Steps :
          (j > i /\ log[j].op \in {"skip", "check"}) =>
              /\ log[j].si > log[i].si
              /\ \E k \in Steps : k > i /\ k <= j /\ log[k].si = log[i].si + 1

\* the booking call of the confirm of entry i failed and the operator chose
\* not to continue: the run returned with the due-list as it was
ReturnedAfterFailure(i) ==
    /\ log[i + 1].res = "failed"
    /\ Len(log) = i + 2
    /\ log[i + 2].op = "continue" /\ log[i + 2].res = "no"
    /\ pc = "returned"
    /\ next_meetings = log[i].list

\* C6 as claimed: on confirm in a real run the booking collaborator is
\* called exactly once with start = slot, end = slot + 30 minutes, attendees
\* [person, organizer] and title "{person first} / {organizer first}"; the
\* person is then removed and the next candidate belongs to the next slot.
C6_ConfirmAlwaysRemoves ==
    \A i \in Steps :
        (log[i].op = "confirm" /\ ~dry_run) => BooksOnce(i) /\ RemovedAndNextSlot(i)

\* C6, amended: the same booking call is made exactly once; then either the
\* call failed and the operator chose not to continue, so the run returned
\* with the person still in the due-list, or the person is removed and the
\* next candidate belongs to the next slot.
C6_ConfirmBooks ==
    \A i \in Steps :
        (log[i].op = "confirm" /\ ~dry_run) =>
            /\ BooksOnce(i)
            /\ ReturnedAfterFailure(i) \/ RemovedAndNextSlot(i)

\* a confirmed meeting was booked and a candidate of the next slot was looked at
C6_Witness ==
    /\ ~dry_run
    /\ \E i, j \in Steps :
          /\ log[i].op = "confirm" /\ log[i + 1].op = "schedule" /\ log[i + 1].res = "ok"
          /\ j > i + 1 /\ log[j].op = "check" /\ log[j].si = log[i].si + 1

\* C7: on decline-person no booking is made for the pair, the due-list is
\* unchanged, and the loop goes on to the next candidate of the same slot,
\* leaving the slot only when its candidates are used up.
C7_DeclineNextCandidate ==
    \A i \in Steps :
        log[i].op = "decline" =>
            /\ \A j \in Steps :
                  log[j].op = "schedule" =>
                      ~(log[j].si = log[i].si /\ log[j].email = log[i].email)
            /\ i = Len(log) =>
                  /\ next_meetings = log[i].list
                  /\ \/ si = log[i].si /\ ci = log[i].ci + 1
                     \/ si > log[i].si /\ log[i].ci = Len(log[i].list)
            /\ i < Len(log) =>
                  /\ log[i + 1].list = log[i].list
                  /\ \/ log[i + 1].si = log[i].si /\ log[i + 1].ci = log[i].ci + 1
                     \/ log[i + 1].si > log[i].si /\ log[i].ci = Len(log[i].list)

\* a person was declined and the next person was checked for the same slot
C7_Witness ==
    \E i \in Steps :
        /\ log[i].op = "decline"
        /\ i < Len(log)
        /\ log[i + 1].op = "check"
        /\ log[i + 1].si = log[i].si
        /\ log[i + 1].email # log[i].email

\* after log entry i the loop went on with the next candidate of the same
\* slot, or with the next slot when i was at the last candidate, and the
\* due-list is as it was
WentOn(i) ==
    /\ i = Len(log) =>
          /\ pc \in {"loop", "done"}
          /\ next_meetings = log[i].list
          /\ \/ si = log[i].si /\ ci = log[i].ci + 1
             \/ si > log[i].si /\ log[i].ci = Len(log[i].list)
    /\ i < Len(log) =>
          /\ log[i + 1].list = log[i].list
          /\ \/ log[i + 1].si = log[i].si /\ log[i + 1].ci = log[i].ci + 1
             \/ log[i + 1].si > log[i].si /\ log[i].ci = Len(log[i].list)

\* C23: when the availability check of a (slot, person) pair fails with an
\* error, or the directory does not hold the person, the person is passed
\* over for that slot and the loop goes on with the next candidate; the run
\* does not end there and the pair is neither presented nor booked.
C23_FailedCheckSkipsPerson ==
    \A i \in Steps :
        (\/ log[i].op = "check" /\ log[i].res \in {"not_found", "no_timezone"}
         \/ log[i].op = "skip" /\ log[i].res = "unknown") =>
            /\ WentOn(i)
            /\ \A j \in Steps :
                  (log[j].si = log[i].si /\ log[j].email = log[i].email) =>
                      log[j].op \notin {"present", "confirm", "schedule"}

\* the check of a person without a timezone failed and the next person was
\* checked for the same slot
C23_Witness ==
    \E i \in Steps :
        /\ log[i].op = "check" /\ log[i].res = "no_timezone"
        /\ i < Len(log)
        /\ log[i + 1].op = "check"
        /\ log[i + 1].si = log[i].si
        /\ log[i + 1].email # log[i].email

\* C26: every booking call comes right after a check of its pair that
\* returned True, the presentation of the pair and the operator's confirm,
\* and is for the slot and the person of that pair; a pair whose check
\* returned False or raised, or that the operator declined, is never booked.
C26_BookedOnlyAfterFreeAndConfirm ==
    /\ \A j \in Steps :
          log[j].op = "schedule" =>
              /\ j > 3
              /\ log[j - 3].op = "check" /\ log[j - 3].res = "free"
              /\ log[j - 2].op = "present"
              /\ log[j - 1].op = "confirm"
              /\ \A k \in (j - 3)..(j - 1) :
                    log[k].si = log[j].si /\ log[k].email = log[j].email
              /\ log[j].call.start_time = slots[log[j].si]
              /\ log[j].call.attendee_emails[1] = log[j].email
    /\ \A i, j \in Steps :
          (/\ \/ log[i].op = "check" /\ log[i].res # "free"
              \/ log[i].op = "decline"
              \/ log[i].op = "stop"
           /\ log[j].si = log[i].si /\ log[j].email = log[i].email) =>
              log[j].op # "schedule"

\* for one slot, a person was not free, another was declined, and a third
\* was booked
C26_Witness ==
    \E i, j, k \in Steps :
        /\ log[i].si = log[k].si /\ log[j].si = log[k].si
        /\ log[i].op = "check" /\ log[i].res \in {"hours", "lunch", "conflict"}
        /\ log[j].op = "decline"
        /\ log[k].op = "schedule" /\ log[k].res = "ok"

\* C27: after a confirm for a person, the person is never checked,
\* presented, confirmed or booked again (the booking of that confirm aside),
\* while a person who was only declined stays in the due-list.
C27_ConfirmedOnce ==
    /\ \A i, j \in Steps :
          (/\ log[i].op = "confirm"
           /\ j > i
           /\ log[j].email = log[i].email
           /\ log[j].op \in {"check", "present", "confirm", "schedule", "skip"}) =>
              (j = i + 1 /\ log[j].op = "schedule")
    /\ \A i \in Steps :
          (/\ log[i].op = "decline"
           /\ \A j \in Steps : log[j].op = "confirm" => log[j].email # log[i].email) =>
              log[i].email \in Emails(next_meetings)

\* a person declined for one slot was presented again for a later slot, and
\* after the confirm of another person a later slot was reached
C27_Witness ==
    /\ \E i, j \in Steps :
          /\ log[i].op = "decline" /\ log[j].op = "present"
          /\ log[j].email = log[i].email /\ log[j].si > log[i].si
    /\ \E i, j \in Steps :
          /\ log[i].op = "confirm" /\ j > i
          /\ log[j].op = "check" /\ log[j].si > log[i].si

\* C28: under --dry-run no booking call is made, and a confirmed person is
\* still taken off the due-list and the slot is left for the next one.
C28_DryRunBooksNothing ==
    dry_run =>
        /\ \A i \in Steps : log[i].op # "schedule" /\ log[i].call = NoCall
        /\ \A i \in Steps :
              log[i].op = "confirm" =>
                  /\ log[i].email \notin Emails(next_meetings)
                  /\ i = Len(log) => si > log[i].si
                  /\ i < Len(log) => log[i + 1].si > log[i].si

\* in a dry run a person was confirmed and a candidate of a later slot was
\* checked with the person off the due-list
C28_Witness ==
    /\ dry_run
    /\ \E i, j \in Steps :
          /\ log[i].op = "confirm" /\ j > i
          /\ log[j].op = "check" /\ log[j].si > log[i].si
          /\ log[i].email \notin Emails(log[j].list)

\* C29: while the loop runs the snapshot file stays what was loaded from it:
\* the due-list the first pair was reached with is the load of the file, and
\* every booked person still has the entry and the due day in the file.
C29_SnapshotKept ==
    log # <<>> =>
        /\ log[1].list = load_next_meetings(snapshot)
        /\ \A i \in Booked :
              \E k \in 1..Len(snapshot) :
                  snapshot[k] = <<log[i].email, date(log[i].next_date)>>

\* a person was booked and taken off the in-memory due-list
C29_Witness ==
    \E i \in Booked :
        /\ log[i].email \notin Emails(next_meetings)
        /\ log[i].email \in Emails(load_next_meetings(snapshot))
        /\ Over

\* the command has returned
Ended == pc \in {"done", "stopped", "returned", "no_slots", "no_meetings"}

\* the availability checks made so far
ChecksMade == { i \in Steps : log[i].op = "check" }

\* one check at most for a (slot, candidate) pair, hence no more checks than
\* slots times loaded candidates
CheckedOncePerPair ==
    /\ \A i, j \in ChecksMade :
          (log[i].si = log[j].si /\ log[i].email = log[j].email) => i = j
    /\ Cardinality(ChecksMade) <= Len(slots) * Len(load_next_meetings(snapshot))

\* C24: every run of the recommend loop ends, whatever the slots, the
\* due-list and the operator's answers, and it makes at most one availability
\* check for a (slot, candidate) pair.
C24_TerminatesWithinBound == <>Ended /\ []CheckedOncePerPair

\* a run ended after checking every loaded candidate for every slot
C24_Witness ==
    /\ pc = "done"
    /\ Len(slots) > 1
    /\ Cardinality(ChecksMade) = Len(slots) * Len(load_next_meetings(snapshot))

-----------------------------------------------------------------------------
(* The manager's config, the cadence rule and the 1:1 classifier *)

\* what a call gives back when it raises ValueError, and when it returns None
ValueError == <<"ValueError">>
None == <<"None">>

\* a call that returns the value v
Value(v) == <<"return", v>>

\* OneOnOneManager.config
config ==
    [domain |-> "x.com",
     roles |-> ("Staff" :> 2) @@ ("Lead" :> 1),
     titles |-> ("Engineer" :> 4) @@ ("Manager" :> 2) @@ ("Lead" :> 3),
     ignore |-> {Email("io")}]

\* person.role is truthy: neither None nor the empty string
RoleSet(person) == person.role \notin {"None", ""}

\* the cadence rule with the title table asked first
_get_meeting_frequency_weeks_title_first(cfg, person) ==
    IF "titles" \in DOMAIN cfg /\ person.title \in DOMAIN cfg.titles
    THEN Value(cfg.titles[person.title])
    ELSE IF RoleSet(person) /\ "roles" \in DOMAIN cfg /\ person.role \in DOMAIN cfg.roles
    THEN Value(cfg.roles[person.role])
    ELSE ValueError

\* OneOnOneManager._get_meeting_frequency_weeks, for a manager whose config
\* is cfg
_get_meeting_frequency_weeks(cfg, person) ==
    IF RoleSet(person) /\ "roles" \in DOMAIN cfg /\ person.role \in DOMAIN cfg.roles
    THEN Value(cfg.roles[person.role])
    ELSE IF "titles" \in DOMAIN cfg /\ person.title \in DOMAIN cfg.titles
    THEN Value(cfg.titles[person.title])
    ELSE ValueError

\* [attendee.email for attendee in event.attendees]
attendee_emails(event) == { event.attendees[i].email : i \in 1..Len(event.attendees) }

\* the classifier with the test of the "/" left out
_is_one_on_one_with_person_no_slash(event, person) ==
    /\ Contains(event.title, first_name(person))
    /\ Contains(event.title, first_name(organizer))
    /\ person.email \in attendee_emails(event)

\* OneOnOneManager._is_one_on_one_with_person
_is_one_on_one_with_person(event, person) ==
    /\ Contains(event.title, first_name(person))
    /\ Contains(event.title, first_name(organizer))
    /\ Contains(event.title, <<"/">>)
    /\ person.email \in attendee_emails(event)

-----------------------------------------------------------------------------
(* OneOnOneManager.get_last_by_username and get_next_recommended_date *)

\* timedelta(days=d) and timedelta(weeks=w), in minutes
Days(d) == d * MinutesPerDay
Weeks(w) == Days(7 * w)

\* f"{username}@{self.domain}"
AtDomain(username) == <<username, config.domain>>

\* all(attendee.has_declined for attendee in event.attendees)
all_declined(event) ==
    \A i \in 1..Len(event.attendees) : has_declined(event.attendees[i])

\* list.sort(key=start_time, reverse=True): stable, latest start first
RECURSIVE InsertByStartDesc(_, _)
InsertByStartDesc(s, ev) ==
    IF s = <<>> THEN <<ev>>
    ELSE IF Head(s).start_time >= ev.start_time
    THEN <<Head(s)>> \o InsertByStartDesc(Tail(s), ev)
    ELSE <<ev>> \o s

RECURSIVE sort_by_start_desc(_)
sort_by_start_desc(events) ==
    IF events = <<>> THEN <<>>
    ELSE InsertByStartDesc(sort_by_start_desc(SubSeq(events, 1, Len(events) - 1)),
                           events[Len(events)])

\* get_last_by_username without the test that drops an event every attendee
\* has declined
get_last_by_username_keep_declined(username, lookback) ==
    IF ~HasPerson(AtDomain(username)) THEN None
    ELSE LET person == by_email(AtDomain(username))
             events == search_events(PrimaryId, first_name(person),
                                     now - Days(lookback), now)
             one_on_ones == SelectSeq(events,
                                LAMBDA ev : _is_one_on_one_with_person(ev, person))
             by_start == sort_by_start_desc(one_on_ones)
         IN  IF by_start # <<>> THEN Value(Head(by_start)) ELSE None

\* OneOnOneManager.get_last_by_username: Value(event), or None
get_last_by_username(username, lookback) ==
    IF ~HasPerson(AtDomain(username)) THEN None
    ELSE LET person == by_email(AtDomain(username))
             end_time == now
             start_time == end_time - Days(lookback)
             events == search_events(PrimaryId, first_name(person),
                                     start_time, end_time)
             one_on_ones == SelectSeq(events,
                                LAMBDA ev : /\ _is_one_on_one_with_person(ev, person)
                                            /\ ~all_declined(ev))
             by_start == sort_by_start_desc(one_on_ones)
         IN  IF by_start # <<>> THEN Value(Head(by_start)) ELSE None

\* get_next_recommended_date with the lookback left out of the base date of
\* a person without a last meeting
get_next_recommended_date_from_now(username, lookback) ==
    IF ~HasPerson(AtDomain(username)) THEN None
    ELSE LET person == by_email(AtDomain(username))
             last_meeting == get_last_by_username(username, lookback)
             frequency_weeks == _get_meeting_frequency_weeks(config, person)
         IN  IF frequency_weeks = ValueError THEN ValueError
             ELSE LET base_date == IF last_meeting # None
                                   THEN last_meeting[2].start_time
                                   ELSE now
                  IN  Value(base_date + Weeks(frequency_weeks[2]))

\* get_next_recommended_date with the missing cadence answered by None
get_next_recommended_date_none_unmapped(username, lookback) ==
    IF ~HasPerson(AtDomain(username)) THEN None
    ELSE LET person == by_email(AtDomain(username))
             last_meeting == get_last_by_username(username, lookback)
             frequency_weeks == _get_meeting_frequency_weeks(config, person)
         IN  IF frequency_weeks = ValueError THEN None
             ELSE LET base_date == IF last_meeting # None
                                   THEN last_meeting[2].start_time
                                   ELSE now - Days(lookback)
                  IN  Value(base_date + Weeks(frequency_weeks[2]))

\* OneOnOneManager.get_next_recommended_date: Value(instant), None, or the
\* ValueError of _get_meeting_frequency_weeks
get_next_recommended_date(username, lookback) ==
    IF ~HasPerson(AtDomain(username)) THEN None
    ELSE LET person == by_email(AtDomain(username))
             last_meeting == get_last_by_username(username, lookback)
             frequency_weeks == _get_meeting_frequency_weeks(config, person)
         IN  IF frequency_weeks = ValueError THEN ValueError
             ELSE LET base_date == IF last_meeting # None
                                   THEN last_meeting[2].start_time
                                   ELSE now - Days(lookback)
                  IN  Value(base_date + Weeks(frequency_weeks[2]))

-----------------------------------------------------------------------------
(* OneOnOneManager._is_person_eligible and refresh_next_meetings *)

\* %b: the month abbreviations, in order
Months == <<"Jan", "Feb", "Mar", "Apr", "May", "Jun",
            "Jul", "Aug", "Sep", "Oct", "Nov", "Dec">>

MonthNumber(mon) == CHOOSE i \in 1..Len(Months) : Months[i] = mon

IsLeap(y) == (y % 4 = 0 /\ y % 100 # 0) \/ y % 400 = 0

DaysInMonth(y, mo) ==
    IF mo = 2 THEN (IF IsLeap(y) THEN 29 ELSE 28)
    ELSE IF mo \in {4, 6, 9, 11} THEN 30 ELSE 31

RECURSIVE DaysBeforeMonth(_, _)
DaysBeforeMonth(y, mo) ==
    IF mo = 1 THEN 0 ELSE DaysBeforeMonth(y, mo - 1) + DaysInMonth(y, mo - 1)

\* date.toordinal(): days since 0001-01-01, that day being 1
toordinal(y, mo, d) ==
    365 * (y - 1) + ((y - 1) \div 4) - ((y - 1) \div 100) + ((y - 1) \div 400)
        + DaysBeforeMonth(y, mo) + d

\* the calendar date of day 0 of the model's instants
Epoch == <<"Jan", 1, 2026>>

\* datetime.strptime(start_date, '%b %d %Y'): Value(midnight of the date), or
\* ValueError when the text is not a month abbreviation, a day of that month
\* and a year
strptime(start_date) ==
    IF Len(start_date) # 3 THEN ValueError
    ELSE LET mon == start_date[1]
             d == start_date[2]
             y == start_date[3]
         IN  IF mon \notin { Months[i] : i \in 1..Len(Months) } THEN ValueError
             ELSE IF d < 1 \/ d > DaysInMonth(y, MonthNumber(mon)) THEN ValueError
             ELSE Value(Days(toordinal(y, MonthNumber(mon), d)
                             - toordinal(Epoch[3], MonthNumber(Epoch[1]), Epoch[2])))

\* _is_person_eligible with a person who starts at this very instant left out
\* too
_is_person_eligible_not_before(person) ==
    LET start_date == strptime(person.start_date)
    IN  IF start_date # ValueError /\ start_date[2] >= now THEN FALSE
        ELSE IF person.manager = organizer.name THEN FALSE
        ELSE IF "ignore" \in DOMAIN config /\ person.email \in config.ignore THEN FALSE
        ELSE TRUE

\* OneOnOneManager._is_person_eligible; datetime.now() is the clock of a host
\* that runs on UTC
_is_person_eligible(person) ==
    LET start_date == strptime(person.start_date)
    IN  IF start_date # ValueError /\ start_date[2] > now THEN FALSE
        ELSE IF person.manager = organizer.name THEN FALSE
        ELSE IF "ignore" \in DOMAIN config /\ person.email \in config.ignore THEN FALSE
        ELSE TRUE

\* next_meetings_after with the instant stored, not its date part
RECURSIVE next_meetings_after_keeps_time(_, _)
next_meetings_after_keeps_time(n, lookback) ==
    IF n = 0 THEN <<>>
    ELSE LET so_far == next_meetings_after_keeps_time(n - 1, lookback)
             email == organization[n]
             person == people_by_email[email]
         IN  IF ~_is_person_eligible(person) THEN so_far
             ELSE LET username == email[1]
                      next_date == get_next_recommended_date(username, lookback)
                  IN  IF next_date = ValueError THEN so_far
                      ELSE IF next_date # None
                      THEN Append(so_far, <<email, next_date[2]>>)
                      ELSE so_far

\* the dict next_meetings after the loop of refresh_next_meetings has gone
\* through the first n rows of the directory: <<email, due day>> entries in
\* the order they were put in
RECURSIVE next_meetings_after(_, _)
next_meetings_after(n, lookback) ==
    IF n = 0 THEN <<>>
    ELSE LET so_far == next_meetings_after(n - 1, lookback)
             email == organization[n]
             person == people_by_email[email]
         IN  IF ~_is_person_eligible(person) THEN so_far
             ELSE LET username == email[1]
                      next_date == get_next_recommended_date(username, lookback)
                  IN  IF next_date = ValueError THEN so_far
                      ELSE IF next_date # None
                      THEN Append(so_far, <<email, date(next_date[2])>>)
                      ELSE so_far

-----------------------------------------------------------------------------
(* SpecUnits: get_timezone, the cadence rule and the classifier applied to
   drawn arguments *)

\* locations: every region code of the two tables under its own country, a
\* code neither table holds, a code of the other country's table, another
\* country, and lists of fewer and of more than three parts
Locations ==
    { <<"City", s, "US">> : s \in DOMAIN US_STATE_TIMEZONES \cup {"ZZ", "ON"} } \cup
    { <<"City", s, "CA">> : s \in DOMAIN CANADA_PROVINCE_TIMEZONES \cup {"ZZ", "NY"} } \cup
    { <<"Paris", "IDF", "FR">>, <<"London">>, <<"Austin", "TX">>,
      <<"Suite 1", "New York", "NY", "US">>, <<>> }

Metros == {"GBP - UK", "USD - USA", "EUR - France"}

Roles == {"None", "", "Staff", "Lead", "Intern"}

Titles == {"Engineer", "Manager", "Lead", "Fellow"}

\* configs with and without each of the two cadence tables
Configs ==
    { config,
      [domain |-> config.domain, titles |-> config.titles, ignore |-> config.ignore],
      [domain |-> config.domain, roles |-> config.roles, ignore |-> config.ignore],
      [domain |-> config.domain, ignore |-> config.ignore] }

EventTitles ==
    { <<"A", "l", " ", "/", " ", "O", "z">>,
      <<"O", "z", "/", "A", "l">>,
      <<"A", "l", " ", "O", "z">>,
      <<"A", "l", " ", "/", " ", "B", "o">>,
      <<"B", "o", " ", "/", " ", "O", "z">>,
      <<"A", "l", "a", "n", " ", "/", " ", "O", "z">>,
      <<"a", "l", " ", "/", " ", "O", "z">>,
      <<"/">> }

AttendeeLists ==
    { <<Attendee(Email("al"), "accepted"), Attendee(Email("oz"), "accepted")>>,
      <<Attendee(Email("oz"), "accepted"), Attendee(Email("al"), "declined")>>,
      <<Attendee(Email("bo"), "accepted"), Attendee(Email("oz"), "accepted")>>,
      <<Attendee(Email("oz"), "accepted")>>,
      <<>> }

\* start dates: long past, 1 March of the year of day 0, a year later, and
\* cells strptime cannot parse: no date, a day the month lacks, a month
\* written out
StartDates ==
    { <<"Jan", 1, 2020>>, <<"Mar", 1, 2026>>, <<"Mar", 1, 2027>>,
      <<"TBD">>, <<"Feb", 30, 2027>>, <<"March", 1, 2027>> }

\* managers: the organizer by name, the organizer's first name, someone else
Managers == { organizer.name, first_name(organizer), <<"S", "u", " ", "L", "i">> }

\* the minute before 1 March 00:00 of the year of day 0, that instant, the
\* minute after, and a later day
EligibilityClocks == { Days(59) - 1, Days(59), Days(59) + 1, Days(100) + Time(10, 30) }

InitUnits ==
    /\ \/ /\ unit_op = "get_timezone"
          /\ unit_person \in { [by_email(Email("al")) EXCEPT !.location = l, !.metro = mt] :
                                  l \in Locations, mt \in Metros }
          /\ unit_arg = <<>>
       \/ /\ unit_op = "frequency"
          /\ unit_person \in { [by_email(Email("al")) EXCEPT !.role = r, !.title = t] :
                                  r \in Roles, t \in Titles }
          /\ unit_arg \in Configs
       \/ /\ unit_op = "classify"
          /\ unit_person \in { by_email(Email("al")), by_email(Email("bo")) }
          /\ unit_arg \in { Event("e", t, 0, SlotMinutes, a) :
                               t \in EventTitles, a \in AttendeeLists }
       \/ /\ unit_op = "eligible"
          /\ unit_person \in { [by_email(e) EXCEPT !.start_date = sd, !.manager = mg] :
                                  e \in {Email("al"), Email("io")},
                                  sd \in StartDates, mg \in Managers }
          /\ unit_arg = <<>>
    /\ unit_out = <<>>
    /\ failing = {}
    /\ now \in IF unit_op = "eligible" THEN EligibilityClocks ELSE {0}
    /\ due_user = ""
    /\ days_back = 0
    /\ last_out = <<>>
    /\ next_out = <<>>
    /\ booked = <<>>
    /\ refresh_pc = "idle"
    /\ computed = <<>>
    /\ prior_snapshot = <<>>
    /\ snapshot_whole = TRUE
    /\ first_run = <<>>
    /\ slot_calendar = <<>>
    /\ primary_calendar = <<>>
    /\ person_calendars = EmptyCalendars
    /\ meeting_time = 0
    /\ person_email = Stranger
    /\ free_exit = "pending"
    /\ slots_returned = FALSE
    /\ free_slots = <<>>
    /\ RecommendIdle

GetTimezone ==
    /\ unit_op = "get_timezone"
    /\ unit_out = <<>>
    /\ unit_out' = LET tz == get_timezone(unit_person)
                   IN  <<tz, IF tz = NoTimezone THEN timezone_error(unit_person) ELSE <<>> >>
    /\ UNCHANGED <<calendars, free_vars, slots_vars, recommend_vars, clock_vars,
                   due_vars, refresh_vars, unit_op, unit_person, unit_arg>>

GetMeetingFrequencyWeeks ==
    /\ unit_op = "frequency"
    /\ unit_out = <<>>
    /\ unit_out' = _get_meeting_frequency_weeks(unit_arg, unit_person)
    /\ UNCHANGED <<calendars, free_vars, slots_vars, recommend_vars, clock_vars,
                   due_vars, refresh_vars, unit_op, unit_person, unit_arg>>

IsOneOnOneWithPerson ==
    /\ unit_op = "classify"
    /\ unit_out = <<>>
    /\ unit_out' = <<_is_one_on_one_with_person(unit_arg, unit_person)>>
    /\ UNCHANGED <<calendars, free_vars, slots_vars, recommend_vars, clock_vars,
                   due_vars, refresh_vars, unit_op, unit_person, unit_arg>>

IsPersonEligible ==
    /\ unit_op = "eligible"
    /\ unit_out = <<>>
    /\ unit_out' = <<_is_person_eligible(unit_person)>>
    /\ UNCHANGED <<calendars, free_vars, slots_vars, recommend_vars, clock_vars,
                   due_vars, refresh_vars, unit_op, unit_person, unit_arg>>

NextUnits ==
    \/ GetTimezone
    \/ GetMeetingFrequencyWeeks
    \/ IsOneOnOneWithPerson
    \/ IsPersonEligible

SpecUnits == InitUnits /\ [][NextUnits]_vars

\* C18: the cadence is the roles entry of the person's role whenever the role
\* is set and the roles table holds it, whatever the titles table says;
\* otherwise the titles entry of the person's title when the table holds it;
\* otherwise the call fails, and no default cadence is returned.
C18_RoleBeforeTitle ==
    (unit_op = "frequency" /\ unit_out # <<>>) =>
        LET role_mapped == /\ unit_person.role \notin {"None", ""}
                           /\ "roles" \in DOMAIN unit_arg
                           /\ unit_person.role \in DOMAIN unit_arg.roles
            title_mapped == /\ "titles" \in DOMAIN unit_arg
                            /\ unit_person.title \in DOMAIN unit_arg.titles
        IN  /\ role_mapped => unit_out = Value(unit_arg.roles[unit_person.role])
            /\ (~role_mapped /\ title_mapped) =>
                   unit_out = Value(unit_arg.titles[unit_person.title])
            /\ (~role_mapped /\ ~title_mapped) => unit_out = ValueError

\* a person whose role and title are both mapped, to different cadences, got
\* the cadence of the role
C18_Witness ==
    /\ unit_op = "frequency"
    /\ unit_person.role = "Lead"
    /\ unit_person.title = "Engineer"
    /\ unit_arg = config
    /\ unit_out = Value(1)

\* C19: the classifier returns True if and only if the person's first name is
\* in the title, the organizer's first name is in the title, the title holds
\* a "/", and the person's email is among the attendees' emails.
C19_ClassifierIffAllFour ==
    (unit_op = "classify" /\ unit_out # <<>>) =>
        (unit_out[1] <=>
            /\ Contains(unit_arg.title, FirstToken(unit_person.name))
            /\ Contains(unit_arg.title, FirstToken(organizer.name))
            /\ \E i \in 1..Len(unit_arg.title) : unit_arg.title[i] = "/"
            /\ \E i \in 1..Len(unit_arg.attendees) :
                   unit_arg.attendees[i].email = unit_person.email)

\* an event that has both first names and the person among its attendees, but
\* no "/" in its title, was classified as not a 1:1
C19_Witness ==
    /\ unit_op = "classify"
    /\ unit_person.email = Email("al")
    /\ unit_arg.title = <<"A", "l", " ", "O", "z">>
    /\ Email("al") \in attendee_emails(unit_arg)
    /\ unit_out = <<FALSE>>

\* the start date is a date, and its midnight is after the instant t (for
\* the start dates and instants drawn, all before day 424)
StartsAfter(start_date, t) ==
    \/ start_date = <<"Mar", 1, 2026>> /\ t < 59 * MinutesPerDay
    \/ start_date = <<"Mar", 1, 2027>>

\* C25: _is_person_eligible returns False exactly when the start date parses
\* and is strictly in the future, or the manager is the organizer by name,
\* or the email is in the ignore set; a start date that does not parse
\* excludes nobody.
C25_EligibleIff ==
    (unit_op = "eligible" /\ unit_out # <<>>) =>
        (unit_out[1] = FALSE <=>
            \/ StartsAfter(unit_person.start_date, now)
            \/ unit_person.manager = <<"O", "z", " ", "K", "i", "m">>
            \/ unit_person.email = Email("io"))

\* a person who starts at this very instant, and one whose start date is
\* not a date, were found eligible
C25_Witness ==
    /\ unit_op = "eligible"
    /\ unit_out = <<TRUE>>
    /\ \/ unit_person.start_date = <<"Mar", 1, 2026>> /\ now = 59 * MinutesPerDay
       \/ unit_person.start_date = <<"Feb", 30, 2027>>

\* the table a location is resolved through, and the key it is asked for
ResolvedThrough(person) ==
    LET loc == person.location
    IN  IF Len(loc) = 3 /\ loc[3] = "US"
        THEN [name |-> "US state", table |-> US_STATE_TIMEZONES, key |-> loc[2]]
        ELSE IF Len(loc) = 3 /\ loc[3] = "CA"
        THEN [name |-> "Canadian province", table |-> CANADA_PROVINCE_TIMEZONES,
              key |-> loc[2]]
        ELSE [name |-> "metro", table |-> METRO_TIMEZONES, key |-> person.metro]

\* C20: a three-part location in the US is resolved through the US-state
\* table, one in CA through the Canadian-province table, every other location
\* through the metro table; a key the table lacks fails with an error that
\* names the key, whatever the metro table holds for the person's metro.
C20_TimezoneTables ==
    (unit_op = "get_timezone" /\ unit_out # <<>>) =>
        LET r == ResolvedThrough(unit_person)
        IN  IF r.key \in DOMAIN r.table
            THEN unit_out = <<r.table[r.key], <<>> >>
            ELSE unit_out = <<NoTimezone, <<r.name, r.key>> >>

\* a US location with a region code the state table lacks failed, naming the
\* code, although the person's metro is in the metro table
C20_Witness ==
    /\ unit_op = "get_timezone"
    /\ unit_person.location = <<"City", "ZZ", "US">>
    /\ unit_person.metro = "GBP - UK"
    /\ unit_out = <<NoTimezone, <<"US state", "ZZ">> >>

-----------------------------------------------------------------------------
(* SpecDue: the history lookup and the due-date engine applied to drawn
   usernames, lookbacks and calendars *)

\* the instant the operations run at: day 100, 10:30 UTC
Clock == Days(100) + Time(10, 30)

\* a 1:1 with al and the organizer that starts `ago` minutes before n
OneOnOne(id, title, n, ago, al_status, oz_status) ==
    Event(id, title, n - ago, n - ago + SlotMinutes,
          <<Attendee(Email("al"), al_status), Attendee(organizer.email, oz_status)>>)

AlOz == <<"A", "l", " ", "/", " ", "O", "z">>

\* the organizer's past and coming events around n, in the order of their
\* starts: a 1:1 40 days back; one that straddles the start of a 30-day
\* lookback; one with bo; one al declined; two both accepted; one everybody
\* declined, the latest of the 1:1s; a meeting whose title has no "/"; and a
\* 1:1 that starts after n
HistoryPool(n) ==
    << OneOnOne("h40", AlOz, n, Days(40), "accepted", "accepted"),
       OneOnOne("h30", AlOz, n, Days(30) + 10, "accepted", "accepted"),
       Event("bo5", <<"B", "o", " ", "/", " ", "O", "z">>, n - Days(5),
             n - Days(5) + SlotMinutes,
             <<Attendee(Email("bo"), "accepted"), Attendee(organizer.email, "accepted")>>),
       OneOnOne("h3", AlOz, n, Days(3), "declined", "accepted"),
       OneOnOne("h2", <<"O", "z", "/", "A", "l">>, n, Days(2), "accepted", "needsAction"),
       OneOnOne("h1", AlOz, n, Days(1), "accepted", "accepted"),
       OneOnOne("hd", AlOz, n, Time(12, 0), "declined", "declined"),
       OneOnOne("hs", <<"A", "l", " ", "O", "z", " ", "s", "y", "n", "c">>, n,
                Time(6, 0), "accepted", "accepted"),
       OneOnOne("hf", AlOz, n, -Days(1), "accepted", "accepted") >>

\* the events of a pool at the given positions, in the pool's order
RECURSIVE Pick(_, _)
Pick(pool, positions) ==
    IF pool = <<>> THEN <<>>
    ELSE LET rest == Pick(SubSeq(pool, 1, Len(pool) - 1), positions)
         IN  IF Len(pool) \in positions THEN Append(rest, pool[Len(pool)]) ELSE rest

Histories(n) == { Pick(HistoryPool(n), S) : S \in SUBSET (1..Len(HistoryPool(n))) }

Usernames == {"al", "bo", "ed", "fy", "gi", "zz"}

Lookbacks == {30, 60}

\* nothing but the two operations runs
DueOnly ==
    /\ unit_op = "none"
    /\ unit_person = <<>>
    /\ unit_arg = <<>>
    /\ unit_out = <<>>
    /\ refresh_pc = "idle"
    /\ computed = <<>>
    /\ prior_snapshot = <<>>
    /\ snapshot_whole = TRUE
    /\ first_run = <<>>
    /\ slot_calendar = <<>>
    /\ person_calendars = EmptyCalendars
    /\ meeting_time = 0
    /\ person_email = Stranger
    /\ free_exit = "pending"
    /\ slots_returned = FALSE
    /\ free_slots = <<>>
    /\ RecommendIdle

InitDue ==
    /\ now = Clock
    /\ failing = {}
    /\ primary_calendar \in Histories(now)
    /\ due_user \in Usernames
    /\ days_back \in Lookbacks
    /\ last_out = <<>>
    /\ next_out = <<>>
    /\ booked = <<>>
    /\ DueOnly

GetLastByUsername ==
    /\ due_user # ""
    /\ last_out = <<>>
    /\ last_out' = get_last_by_username(due_user, days_back)
    /\ UNCHANGED <<calendars, free_vars, slots_vars, recommend_vars, clock_vars,
                   unit_vars, refresh_vars, due_user, days_back, next_out, booked>>

GetNextRecommendedDate ==
    /\ due_user # ""
    /\ next_out = <<>>
    /\ next_out' = get_next_recommended_date(due_user, days_back)
    /\ UNCHANGED <<calendars, free_vars, slots_vars, recommend_vars, clock_vars,
                   unit_vars, refresh_vars, due_user, days_back, last_out, booked>>

NextDue ==
    \/ GetLastByUsername
    \/ GetNextRecommendedDate

SpecDue == InitDue /\ [][NextDue]_vars

\* the person the username names at the configured domain, when there is one
DueKnown == HasPerson(<<due_user, config.domain>>)
DuePerson == by_email(<<due_user, config.domain>>)

\* C15 as stated: get_next_recommended_date fails with an error both for a
\* username the directory does not hold and for a person without a cadence
\* mapping; it returns neither a date nor an empty result.
C15_FailsForUnknownAndUnmapped ==
    (next_out # <<>> /\ (~DueKnown \/ _get_meeting_frequency_weeks(config, DuePerson) = ValueError)) =>
        next_out = ValueError

\* C15 as amended: for a username the directory does not hold the call
\* returns None, and for a known person without a cadence mapping it fails
\* with the ValueError of the cadence rule.
C15_NoneForUnknownErrorForUnmapped ==
    next_out # <<>> =>
        /\ ~DueKnown => next_out = None
        /\ (DueKnown /\ DuePerson.role \notin DOMAIN config.roles
                     /\ DuePerson.title \notin DOMAIN config.titles) =>
               next_out = ValueError

\* the call was made for a known person whose title and role are unmapped,
\* and failed
C15_Witness ==
    /\ due_user = "gi"
    /\ primary_calendar # <<>>
    /\ next_out = ValueError

\* the cadence in weeks of the people the config maps
CadenceWeeks == ("al" :> 4) @@ ("bo" :> 2) @@ ("ed" :> 1)

Qualifying ==
    IF ~DueKnown THEN {}
    ELSE { ev \in { primary_calendar[i] : i \in 1..Len(primary_calendar) } :
             /\ ev.start_time < now
             /\ ev.end_time > now - days_back * MinutesPerDay
             /\ _is_one_on_one_with_person(ev, DuePerson)
             /\ \E i \in 1..Len(ev.attendees) :
                    ev.attendees[i].response_status # "declined" }

\* C17: get_last_by_username returns one of the qualifying events with the
\* greatest start, and none exactly when there is no qualifying event; an
\* event every attendee declined is never returned.
C17_LatestQualifying ==
    last_out # <<>> =>
        IF Qualifying = {}
        THEN last_out = None
        ELSE /\ last_out # None
             /\ last_out[2] \in Qualifying
             /\ \A ev \in Qualifying : ev.start_time <= last_out[2].start_time

\* the calendar holds a 1:1 everybody declined that is later than the one
\* returned
C17_Witness ==
    /\ due_user = "al"
    /\ last_out # <<>> /\ last_out # None
    /\ last_out[2].id = "h1"
    /\ \E i \in 1..Len(primary_calendar) :
           /\ primary_calendar[i].id = "hd"
           /\ primary_calendar[i].start_time > last_out[2].start_time

-----------------------------------------------------------------------------
(* SpecQuery: the three operations that query the backend, run while the
   backend fails the queries of some calendars *)

\* the instant the history lookup runs at: day 20, 10:30 UTC, so that the
\* slot range is inside a lookback of 30 days
QueryClock == Days(20) + Time(10, 30)

InitQuery ==
    /\ failing \in SUBSET {PrimaryId, SlotCalendarId, Email("al")}
    /\ now = QueryClock
    /\ slot_calendar \in { l \in Listings(BlockPool, MaxBlocks) : Distinct(l) }
    /\ primary_calendar =
          PrimaryPool \o <<OneOnOne("h1", AlOz, now, Days(1), "accepted", "accepted")>>
    /\ person_calendars = BusyCalendars
    /\ meeting_time \in {Time(15, 0), Time(19, 0)}
    /\ person_email = Email("al")
    /\ free_exit = "pending"
    /\ slots_returned = FALSE
    /\ free_slots = <<>>
    /\ due_user = "al"
    /\ days_back = 30
    /\ last_out = <<>>
    /\ next_out = <<>>
    /\ booked = <<>>
    /\ unit_op = "none"
    /\ unit_person = <<>>
    /\ unit_arg = <<>>
    /\ unit_out = <<>>
    /\ refresh_pc = "idle"
    /\ computed = <<>>
    /\ prior_snapshot = <<>>
    /\ snapshot_whole = TRUE
    /\ first_run = <<>>
    /\ RecommendIdle

NextQuery ==
    \/ CheckPersonFree
    \/ GetFreeSlots
    \/ GetLastByUsername

SpecQuery == InitQuery /\ [][NextQuery]_vars

\* C13: an operation one of whose queries the backend failed ends in an
\* error: the availability checker gives no answer about a person whose
\* calendar query failed, the slot finder returns no list when the query of
\* the slot calendar or of the primary calendar failed, and the history
\* lookup returns neither an event nor None when its query failed.
C13_FailedQueryIsAnError ==
    /\ free_exit \in {"free", "conflict"} => person_email \notin failing
    /\ slots_returned =>
          /\ SlotCalendarId \notin failing
          /\ events_list(SlotCalendarId, slot_title, RangeStart, RangeEnd) # <<>> =>
                 PrimaryId \notin failing
    /\ (last_out # <<>> /\ DueKnown) => PrimaryId \notin failing

-----------------------------------------------------------------------------
(* SpecRefresh: refresh_next_meetings run step by step, with a crash and a
   load_next_meetings of another invocation possible between its steps *)

\* the snapshot an earlier refresh left
PriorSnapshot == << <<Email("al"), 90>>, <<Email("bo"), 95>> >>

\* a 1:1 with al that starts ten minutes after n
StartsSoon(n) == OneOnOne("hn", AlOz, n, -10, "accepted", "accepted")

\* the organizer's calendar: the sub-lists of the 1:1 that straddles the
\* start of a 30-day lookback, the 1:1 with bo, the two 1:1s with al both
\* accepted, the one everybody declined, and the one that starts soon
RefreshHistories(n) ==
    { Pick(HistoryPool(n) \o <<StartsSoon(n)>>, S) : S \in SUBSET {2, 3, 5, 6, 7, 10} }

InitRefresh ==
    /\ now = Clock
    /\ failing \in {{}, {PrimaryId}}
    /\ primary_calendar \in RefreshHistories(now)
    /\ days_back \in Lookbacks
    /\ snapshot \in {<<>>, PriorSnapshot}
    /\ prior_snapshot = snapshot
    /\ snapshot_whole = TRUE
    /\ first_run = <<>>
    /\ refresh_pc = "start"
    /\ computed = <<>>
    /\ due_user = ""
    /\ last_out = <<>>
    /\ next_out = <<>>
    /\ booked = <<>>
    /\ unit_op = "none"
    /\ unit_person = <<>>
    /\ unit_arg = <<>>
    /\ unit_out = <<>>
    /\ slot_calendar = <<>>
    /\ person_calendars = EmptyCalendars
    /\ meeting_time = 0
    /\ person_email = Stranger
    /\ free_exit = "pending"
    /\ slots_returned = FALSE
    /\ free_slots = <<>>
    /\ dry_run = FALSE
    /\ slots = <<>>
    /\ next_meetings = <<>>
    /\ si = 0
    /\ ci = 0
    /\ pc = "idle"
    /\ log = <<>>

\* the loop over the directory
RefreshCompute ==
    /\ refresh_pc = "start"
    /\ computed' = next_meetings_after(Len(organization), days_back)
    /\ refresh_pc' = "computed"
    /\ UNCHANGED <<calendars, free_vars, slots_vars, recommend_vars, clock_vars,
                   unit_vars, due_vars, prior_snapshot, snapshot_whole, first_run>>

\* open(data_dir / 'next_meetings.json', 'w'): the file is cut to no bytes
RefreshOpen ==
    /\ refresh_pc = "computed"
    /\ snapshot' = <<>>
    /\ snapshot_whole' = FALSE
    /\ refresh_pc' = "writing"
    /\ UNCHANGED <<calendars, free_vars, slots_vars, clock_vars, unit_vars, due_vars,
                   dry_run, slots, next_meetings, si, ci, pc, log,
                   computed, prior_snapshot, first_run>>

\* json.dump: the text of the next entry reaches the file
RefreshWrite ==
    /\ refresh_pc = "writing"
    /\ Len(snapshot) < Len(computed)
    /\ snapshot' = Append(snapshot, computed[Len(snapshot) + 1])
    /\ UNCHANGED <<calendars, free_vars, slots_vars, clock_vars, unit_vars, due_vars,
                   dry_run, slots, next_meetings, si, ci, pc, log, refresh_vars>>

\* the last bytes are written and the file is closed
RefreshClose ==
    /\ refresh_pc = "writing"
    /\ Len(snapshot) = Len(computed)
    /\ snapshot_whole' = TRUE
    /\ refresh_pc' = "done"
    /\ UNCHANGED <<calendars, free_vars, slots_vars, recommend_vars, clock_vars,
                   unit_vars, due_vars, computed, prior_snapshot, first_run>>

\* the process is killed between two steps
RefreshCrash ==
    /\ refresh_pc \in {"computed", "writing"}
    /\ refresh_pc' = "crashed"
    /\ UNCHANGED <<calendars, free_vars, slots_vars, recommend_vars, clock_vars,
                   unit_vars, due_vars, computed, prior_snapshot, snapshot_whole,
                   first_run>>

\* load_next_meetings of another invocation: json.load raises on a file that
\* is not a whole JSON document
LoadNextMeetings ==
    /\ pc = "idle"
    /\ IF snapshot_whole
       THEN next_meetings' = load_next_meetings(snapshot) /\ pc' = "loaded"
       ELSE next_meetings' = next_meetings /\ pc' = "load_error"
    /\ UNCHANGED <<calendars, free_vars, slots_vars, clock_vars, unit_vars, due_vars,
                   refresh_vars, snapshot, dry_run, slots, si, ci, log>>

\* refresh_next_meetings is called a second time, on the calendar, directory
\* and configuration of the first call, a minute, half an hour or fourteen
\* hours (which is past midnight) later on the clock
RefreshAgain ==
    /\ refresh_pc = "done"
    /\ first_run = <<>>
    /\ first_run' = <<now, snapshot>>
    /\ \E d \in {1, SlotMinutes, Time(14, 0)} : now' = now + d
    /\ prior_snapshot' = snapshot
    /\ computed' = <<>>
    /\ refresh_pc' = "start"
    /\ UNCHANGED <<calendars, free_vars, slots_vars, recommend_vars, failing,
                   unit_vars, due_vars, snapshot_whole>>

NextRefresh ==
    \/ RefreshAgain
    \/ RefreshCompute
    \/ RefreshOpen
    \/ RefreshWrite
    \/ RefreshClose
    \/ RefreshCrash
    \/ LoadNextMeetings

SpecRefresh == InitRefresh /\ [][NextRefresh]_vars

\* C12: at every point of a refresh, a crash included, the file is a whole
\* document that holds either the prior snapshot or the new one, and a load
\* by another invocation never fails on it.
C12_NoPartialSnapshot ==
    /\ snapshot_whole
    /\ snapshot = prior_snapshot \/ (refresh_pc \notin {"start"} /\ snapshot = computed)
    /\ pc # "load_error"

\* the 1:1s with a person that a history lookup by the person's own email
\* chooses among
OwnOneOnOnes(person) ==
    { ev \in { primary_calendar[i] : i \in 1..Len(primary_calendar) } :
        /\ ev.start_time < now
        /\ ev.end_time > now - days_back * MinutesPerDay
        /\ _is_one_on_one_with_person(ev, person)
        /\ ~all_declined(ev) }

\* the person's own due instant: cadence weeks after the latest own 1:1, or
\* after the start of the lookback when there is none
OwnDue(person) ==
    LET base == IF OwnOneOnOnes(person) = {}
                THEN now - days_back * MinutesPerDay
                ELSE CHOOSE t \in { ev.start_time : ev \in OwnOneOnOnes(person) } :
                         \A ev \in OwnOneOnOnes(person) : ev.start_time <= t
    IN  base + 7 * _get_meeting_frequency_weeks(config, person)[2] * MinutesPerDay

\* the directory people who are eligible and have a cadence mapping
DuePeople ==
    { p \in { people_by_email[e] : e \in DOMAIN people_by_email } :
        /\ _is_person_eligible(p)
        /\ _get_meeting_frequency_weeks(config, p) # ValueError }

\* C14: after a refresh the snapshot holds one entry for each eligible person
\* with a cadence mapping and no other entry, under the person's own email,
\* with the day of the person's own due date; people of another email domain
\* are among them, and a person without a mapping is left out.
C14_SnapshotOfDuePeople ==
    refresh_pc = "done" =>
        /\ { snapshot[i] : i \in 1..Len(snapshot) } =
              { <<p.email, date(OwnDue(p))>> : p \in DuePeople }
        /\ Len(snapshot) = Cardinality(DuePeople)


\* a second run has ended on the clock date of the first
SecondRunSameDate ==
    /\ refresh_pc = "done"
    /\ first_run # <<>>
    /\ date(first_run[1]) = date(now)

\* between the two runs an event entered or left the lookback window: it
\* starts from the first run's instant on and before the second's, or it ends
\* after the start of the first run's window and not after the second's
CrossedWindow ==
    \E i \in 1..Len(primary_calendar) :
        LET ev == primary_calendar[i]
            lookback == days_back * MinutesPerDay
        IN  \/ first_run[1] <= ev.start_time /\ ev.start_time < now
            \/ first_run[1] - lookback < ev.end_time /\ ev.end_time <= now - lookback

\* C21 as stated: a second run of refresh_next_meetings on the clock date of
\* the first, with directory, configuration and calendar unchanged, leaves
\* the snapshot of the first.
C21_SameDateSameSnapshot ==
    SecondRunSameDate => snapshot = first_run[2]

\* C21: a second run of refresh_next_meetings on the clock date of the
\* first, with directory, configuration and calendar unchanged and with no
\* event that entered or left the lookback window between the two instants,
\* leaves the snapshot of the first.
C21_SameSnapshotWhenNoEventCrosses ==
    (SecondRunSameDate /\ ~CrossedWindow) => snapshot = first_run[2]

\* a second run half an hour after the first, on a calendar with a 1:1 in
\* the window, left the first run's entries
C21_Witness ==
    /\ SecondRunSameDate
    /\ failing = {}
    /\ ~CrossedWindow
    /\ now = first_run[1] + SlotMinutes
    /\ \E i \in 1..Len(primary_calendar) : primary_calendar[i].id = "h1"
    /\ snapshot # <<>>
    /\ snapshot = first_run[2]

-----------------------------------------------------------------------------
(* SpecBook: a meeting is booked with schedule, the invited answer, time
   passes, and the event is classified and looked up in the history *)

\* the start of the booked meeting: the day after the booking, 15:00 UTC
BookStart == Days(101) + Time(15, 0)

\* the organizer's calendar at the booking: the sub-lists of a 1:1 with al
\* the day before, a 1:1 with ed@x.com two days before, and a 1:1 with al
\* three days ahead
BookHistories(n) ==
    { Pick(<< OneOnOne("h1", AlOz, n, Days(1), "accepted", "accepted"),
              Event("e2", <<"E", "d", "a", " ", "/", " ", "O", "z">>, n - Days(2),
                    n - Days(2) + SlotMinutes,
                    <<Attendee(Email("ed"), "accepted"),
                      Attendee(organizer.email, "accepted")>>),
              OneOnOne("hl", AlOz, n, -Days(3), "accepted", "accepted") >>, S) :
        S \in SUBSET {1, 2, 3} }

InitBook ==
    /\ now = Clock
    /\ failing = {}
    /\ primary_calendar \in BookHistories(now)
    /\ person_email \in DOMAIN people_by_email \cup {Stranger}
    /\ meeting_time = BookStart
    /\ days_back \in Lookbacks
    /\ due_user = ""
    /\ last_out = <<>>
    /\ next_out = <<>>
    /\ booked = <<>>
    /\ unit_op = "none"
    /\ unit_person = <<>>
    /\ unit_arg = <<>>
    /\ unit_out = <<>>
    /\ refresh_pc = "idle"
    /\ computed = <<>>
    /\ prior_snapshot = <<>>
    /\ snapshot_whole = TRUE
    /\ first_run = <<>>
    /\ slot_calendar = <<>>
    /\ person_calendars = EmptyCalendars
    /\ free_exit = "pending"
    /\ slots_returned = FALSE
    /\ free_slots = <<>>
    /\ RecommendIdle

\* OneOnOneManager.schedule: ValueError for an email the directory lacks,
\* else the event the client created on the organizer's calendar
ScheduleMeeting ==
    /\ booked = <<>>
    /\ IF ~HasPerson(person_email)
       THEN /\ booked' = ValueError
            /\ UNCHANGED primary_calendar
       ELSE LET call == schedule(person_email, meeting_time, meeting_time + SlotMinutes)
            IN  /\ booked' = Value(created_event(call))
                /\ primary_calendar' = Append(primary_calendar, created_event(call))
    /\ UNCHANGED <<slot_calendar, person_calendars, free_vars, slots_vars,
                   recommend_vars, clock_vars, unit_vars, refresh_vars,
                   due_user, days_back, last_out, next_out>>

\* the event the booking created, as the calendar holds it now
BookedEvent ==
    LET i == CHOOSE i \in 1..Len(primary_calendar) : primary_calendar[i].id = booked[2].id
    IN  primary_calendar[i]

\* the person and the organizer answer the invitation
Respond ==
    /\ booked # <<>> /\ booked # ValueError
    /\ now = Clock
    /\ \A i \in 1..Len(BookedEvent.attendees) :
          BookedEvent.attendees[i].response_status = "needsAction"
    /\ \E person_status, organizer_status \in {"accepted", "declined"} :
          primary_calendar' =
              [i \in 1..Len(primary_calendar) |->
                  IF primary_calendar[i].id = booked[2].id
                  THEN [primary_calendar[i] EXCEPT !.attendees =
                           <<Attendee(person_email, person_status),
                             Attendee(organizer.email, organizer_status)>>]
                  ELSE primary_calendar[i]]
    /\ UNCHANGED <<slot_calendar, person_calendars, free_vars, slots_vars,
                   recommend_vars, clock_vars, unit_vars, refresh_vars, due_vars>>

\* two, five or forty-five days pass between the booking and the lookup
TimePasses ==
    /\ booked # <<>> /\ booked # ValueError
    /\ now = Clock
    /\ \E d \in {Days(2), Days(5), Days(45)} : now' = now + d
    /\ UNCHANGED <<calendars, free_vars, slots_vars, recommend_vars, failing,
                   unit_vars, refresh_vars, due_vars>>

\* _is_one_on_one_with_person on the booked event and the person booked
ClassifyBooked ==
    /\ booked # <<>> /\ booked # ValueError
    /\ unit_out = <<>>
    /\ unit_out' = <<_is_one_on_one_with_person(BookedEvent, by_email(person_email))>>
    /\ UNCHANGED <<calendars, free_vars, slots_vars, recommend_vars, clock_vars,
                   due_vars, refresh_vars, unit_op, unit_person, unit_arg>>

\* get_last_by_username for the username of the person booked, as
\* refresh_next_meetings takes it from the email
LookupBooked ==
    /\ booked # <<>> /\ booked # ValueError
    /\ now > Clock
    /\ last_out = <<>>
    /\ due_user' = person_email[1]
    /\ last_out' = get_last_by_username(person_email[1], days_back)
    /\ UNCHANGED <<calendars, free_vars, slots_vars, recommend_vars, clock_vars,
                   unit_vars, refresh_vars, days_back, next_out, booked>>

NextBook ==
    \/ ScheduleMeeting
    \/ Respond
    \/ TimePasses
    \/ ClassifyBooked
    \/ LookupBooked

SpecBook == InitBook /\ [][NextBook]_vars

\* a lookup was made whose window covers the booked event, which not
\* everybody declined
LookedUpCovered ==
    /\ booked # <<>> /\ booked # ValueError
    /\ last_out # <<>>
    /\ BookedEvent.start_time < now
    /\ BookedEvent.end_time > now - Days(days_back)
    /\ ~all_declined(BookedEvent)

\* the lookup gave an event that starts no earlier than the booked one
FoundAsRecent ==
    /\ last_out # None
    /\ last_out[2].start_time >= BookedEvent.start_time

\* C30: the event schedule creates for a known person is classified as a 1:1
\* with that person, and a later history lookup for the person whose window
\* covers the event's start, the event not declined by everybody, returns an
\* event that starts no earlier than the booked one.
C30_BookedIsFoundAgain ==
    /\ (booked # <<>> /\ booked # ValueError /\ unit_out # <<>>) => unit_out[1]
    /\ LookedUpCovered => FoundAsRecent

\* the same for the people whose email is of the configured domain
C30_HoldsAtConfiguredDomain ==
    person_email[2] = config.domain => C30_BookedIsFoundAgain

\* the booked event is classified as a 1:1 with the person booked, whatever
\* the person's domain
C30_ClassifiedAsOneOnOne ==
    (booked # <<>> /\ booked # ValueError /\ unit_out # <<>>) => unit_out[1]

\* a booking with al was looked up and found
C30_FoundForAl ==
    /\ person_email = Email("al")
    /\ LookedUpCovered
    /\ last_out = Value(BookedEvent)
=============================================================================
